---- MODULE Spec2Model ----
(***************************************************************************)
(* Model of the call-flow runtime of the voice backend.                    *)
(*                                                                         *)
(* Part 1: core/connection_manager.py, class ConnectionManager.            *)
(* The manager runs on a single-threaded asyncio loop: a coroutine runs    *)
(* without interruption from one `await` that really suspends to the next. *)
(* The suspension points of the class are                                  *)
(*   connect      : await websocket.accept()        (line 34)              *)
(*   send_message : await websocket.send_json(..)   (line 69)              *)
(*   _heartbeat   : await asyncio.sleep(..)         (line 91)              *)
(*   close_all    : await websocket.close()         (line 122)             *)
(* so every action below is the code between two of these points.          *)
(* disconnect, join_room and leave_room never suspend: they are atomic.    *)
(*                                                                         *)
(* asyncio.CancelledError derives from BaseException (Python >= 3.8), so   *)
(* the `except Exception` of send_message does not catch a cancellation;   *)
(* it reaches the `except asyncio.CancelledError` of _heartbeat.           *)
(***************************************************************************)
EXTENDS Naturals, Integers, Sequences, FiniteSets, TLC

\* ---- bounds of the model ------------------------------------------------
\* WebSocket objects handed to connect() during one run (each connect gets a
\* new object: accepting one object twice is an error of the framework).
MaxHandles == 3
\* Cap on connection_info[..]["messages_sent"].
MaxSent == 2
\* Connects made in the specification of the rooms.
MaxRoomConnects == 2
\* Connects made in the fair specification of the heartbeat.
MaxLiveConnects == 2
\* Exchanges with the Reasoner while nodes are executed.
MaxSharedExchanges == 2

CallIds == {"A", "B"}
RoomNames == {"call_monitor", "queue_monitor"}
Handles == 1..MaxHandles
NoHandle == 0

VARIABLES
    active_connections,  \* dict call_id -> WebSocket (a handle)
    key_order,           \* insertion order of the keys of active_connections
    connection_info,     \* dict call_id -> metadata record
    heartbeat_tasks,     \* dict call_id -> asyncio.Task (a task id)
    rooms,               \* dict room_name -> set of call_id
    tasks,               \* the heartbeat tasks ever created, by task id
    ws,                  \* the WebSocket objects: owner call_id and history
    nextHandle,          \* next unused WebSocket object
    op,                  \* the application coroutine in flight, if any
    error,               \* exception that escaped the last atomic call
    conversation_history, \* AIService: dict call_id -> list of {role, content}
    pcall,               \* the process_audio / process_text call in flight
    answered,            \* per call_id, the replies the Reasoner has produced
    run,                 \* per call_id, the exchanges since the last reset call
    request,             \* what the last call of the services sent the Reasoner
    wf,                  \* the execute_workflow_node call in flight
    validation           \* the last validate_node_data call

cmvars == <<active_connections, key_order, connection_info, heartbeat_tasks,
            rooms, tasks, ws, nextHandle, op, error>>

aivars == <<conversation_history, pcall, answered, run, request>>

wfvars == <<wf, validation>>

vars == <<cmvars, aivars, wfvars>>

\* ---- dict helpers -------------------------------------------------------
DictSet(d, k, v) == [x \in (DOMAIN d) \cup {k} |-> IF x = k THEN v ELSE d[x]]

DictDel(d, k) == [x \in (DOMAIN d) \ {k} |-> d[x]]

EmptyDict == [x \in {} |-> 0]

RECURSIVE SeqDel(_, _)
SeqDel(s, k) ==
    IF s = <<>> THEN <<>>
    ELSE IF Head(s) = k THEN SeqDel(Tail(s), k)
    ELSE <<Head(s)>> \o SeqDel(Tail(s), k)

\* ---- the manager's state as one value -----------------------------------
\* The fields a manager method reads and writes; `error` is the exception the
\* call ends with ("none" when it returns normally).
Cur ==
    [active_connections |-> active_connections,
     key_order          |-> key_order,
     connection_info    |-> connection_info,
     heartbeat_tasks    |-> heartbeat_tasks,
     rooms              |-> rooms,
     tasks              |-> tasks,
     error              |-> "none"]

Install(S) ==
    /\ active_connections' = S.active_connections
    /\ key_order' = S.key_order
    /\ connection_info' = S.connection_info
    /\ heartbeat_tasks' = S.heartbeat_tasks
    /\ rooms' = S.rooms
    /\ tasks' = S.tasks

FreshInfo == [messages_sent |-> 0, messages_received |-> 0]

NewTask == [pc |-> "start", cancel |-> FALSE, to |-> NoHandle]

NoTask == [pc |-> "none", cancel |-> FALSE, to |-> NoHandle]

\* Task.cancel(): a finished task ignores it; otherwise the task gets
\* CancelledError at the await it is (or will next be) suspended on.
cancel(tk, t) ==
    IF tk[t].pc \in {"none", "done"} THEN tk
    ELSE [tk EXCEPT ![t].cancel = TRUE]

\* ---- disconnect (lines 50-62) -------------------------------------------
\* Mutant: the guard of line 52 dropped; `del` of an absent key raises.
disconnect_unguarded(S, c) ==
    IF c \in DOMAIN S.active_connections
    THEN [S EXCEPT !.tasks = IF c \in DOMAIN S.heartbeat_tasks
                              THEN cancel(@, S.heartbeat_tasks[c]) ELSE @,
                   !.heartbeat_tasks = DictDel(@, c),
                   !.active_connections = DictDel(@, c),
                   !.key_order = SeqDel(@, c),
                   !.connection_info = DictDel(@, c)]
    ELSE [S EXCEPT !.tasks = IF c \in DOMAIN S.heartbeat_tasks
                              THEN cancel(@, S.heartbeat_tasks[c]) ELSE @,
                   !.heartbeat_tasks = DictDel(@, c),
                   !.error = "KeyError"]

\* Mutant: line 59 (del self.active_connections[call_id]) left out.
disconnect_keeps_connection(S, c) ==
    IF c \notin DOMAIN S.active_connections THEN S
    ELSE [S EXCEPT !.tasks = IF c \in DOMAIN S.heartbeat_tasks
                              THEN cancel(@, S.heartbeat_tasks[c]) ELSE @,
                   !.heartbeat_tasks = DictDel(@, c),
                   !.connection_info = DictDel(@, c)]

disconnect(S, c) ==
    IF c \notin DOMAIN S.active_connections THEN S
    ELSE LET S1 == [S EXCEPT
                      !.tasks = IF c \in DOMAIN S.heartbeat_tasks
                                THEN cancel(@, S.heartbeat_tasks[c]) ELSE @,
                      !.heartbeat_tasks = DictDel(@, c),
                      !.active_connections = DictDel(@, c),
                      !.key_order = SeqDel(@, c)]
         IN  IF c \in DOMAIN S.connection_info
             THEN [S1 EXCEPT !.connection_info = DictDel(@, c)]
             ELSE [S1 EXCEPT !.error = "KeyError"]

\* ---- connect (lines 32-48), the part after accept() returned -----------
\* Mutant: the metadata of an id that is already registered is kept.
register_keeps_info(S, h, c) ==
    [S EXCEPT
       !.active_connections = DictSet(@, c, h),
       !.key_order = IF c \in DOMAIN S.active_connections THEN @ ELSE Append(@, c),
       !.connection_info = IF c \in DOMAIN @ THEN @ ELSE DictSet(@, c, FreshInfo),
       !.heartbeat_tasks = DictSet(@, c, h),
       !.tasks = [@ EXCEPT ![h] = NewTask]]

\* The task created by connect for WebSocket h has task id h.
register(S, h, c) ==
    [S EXCEPT
       !.active_connections = DictSet(@, c, h),
       !.key_order = IF c \in DOMAIN S.active_connections THEN @ ELSE Append(@, c),
       !.connection_info = DictSet(@, c, FreshInfo),
       !.heartbeat_tasks = DictSet(@, c, h),
       !.tasks = [@ EXCEPT ![h] = NewTask]]

\* ---- send_message (lines 64-77) ----------------------------------------
\* Lines 66-69: the WebSocket the message is handed to, NoHandle when the id
\* is not registered (the call then returns at once).
send_target(S, c) ==
    IF c \in DOMAIN S.active_connections THEN S.active_connections[c] ELSE NoHandle

\* messages_sent += 1. The specifications that cap the counter never start a
\* send that could pass MaxSent; the fair specification lets it saturate.
Inc(n) == IF n < MaxSent THEN n + 1 ELSE n

\* Mutant: the handler of line 75 only logs, it does not disconnect.
send_finish_logs_only(S, c, ok) ==
    IF ok /\ c \in DOMAIN S.connection_info
    THEN [S EXCEPT !.connection_info[c].messages_sent = Inc(@)]
    ELSE S

\* Lines 71-77 once send_json has returned (ok) or raised (~ok). The stats
\* update of line 72 raises KeyError when the metadata is gone; the handler
\* of line 75 catches it like a transport error.
send_finish(S, c, ok) ==
    IF ok /\ c \in DOMAIN S.connection_info
    THEN [S EXCEPT !.connection_info[c].messages_sent = Inc(@)]
    ELSE disconnect(S, c)

\* Sends suspended on send_json for call_id c.
InFlight(c) ==
    Cardinality({t \in Handles : tasks[t].pc = "send" /\ ws[t].cid = c})
    + (IF op.pc = "sending" /\ op.cid = c THEN 1 ELSE 0)

\* Guard of the capped specifications: no send is started that could take
\* messages_sent past MaxSent.
WithinCap ==
    \A c \in DOMAIN connection_info :
        connection_info[c].messages_sent + InFlight(c) <= MaxSent

\* Whether send_finish ends in the handler of line 75 (and so disconnects).
Evicts(S, c, ok) == ~(ok /\ c \in DOMAIN S.connection_info)

\* ---- history of the WebSocket objects (not program state) ---------------
\* st: "unused", "accepting" (connect suspended on accept), "live" (connect
\* completed, no disconnect of its call_id returned since), "replaced" (a
\* later connect took its call_id), "disconnected", "refused".
LiveHandles(w, c) == {h \in Handles : w[h].st = "live" /\ w[h].cid = c}

Closed(w, c) ==
    [h \in Handles |-> IF h \in LiveHandles(w, c)
                       THEN [w[h] EXCEPT !.st = "disconnected"] ELSE w[h]]

Idle == [kind |-> "none", pc |-> "idle", cid |-> "-", to |-> NoHandle,
         todo |-> <<>>, exclude |-> {}, room |-> "-", mtype |-> "-",
         members0 |-> {}, visited |-> {}, stale |-> FALSE,
         snap |-> EmptyDict, attempted |-> {}, failed |-> {},
         error |-> "none"]

\* ---- initial values of the services (parts 2 and 3 below) ----------------
\* call_ids of conversations; "" is a string like any other to the caller.
ConversationIds == {"", "A"}

NoText == <<>>

\* No pipeline call has been made yet.
NoCall == [kind |-> "none", pc |-> "idle", cid |-> "-", text |-> NoText,
           reply |-> NoText, invoked |-> <<>>, outs |-> <<>>,
           h0 |-> <<>>, h1 |-> <<>>, result |-> [pending |-> TRUE]]

\* Python's None: the value of an absent argument or of a missing dict key.
None == "<None>"

\* No node has been executed yet.
\* context is the caller's dict as it is now, given as it was passed.
WfIdle == [pc |-> "idle", node_type |-> "-", node_data |-> EmptyDict,
           context |-> EmptyDict, given |-> EmptyDict, handler |-> "none",
           synth |-> 0, said |-> None, result |-> [pending |-> TRUE]]

\* validate_node_data has not been called yet.
NotValidated == [pc |-> "idle", node_type |-> "-", node_data |-> EmptyDict,
                 result |-> [pending |-> TRUE]]

Init ==
    /\ active_connections = EmptyDict
    /\ key_order = <<>>
    /\ connection_info = EmptyDict
    /\ heartbeat_tasks = EmptyDict
    /\ rooms = EmptyDict
    /\ tasks = [t \in Handles |-> NoTask]
    /\ ws = [h \in Handles |-> [cid |-> "-", st |-> "unused"]]
    /\ nextHandle = 1
    /\ op = Idle
    /\ error = "none"
    /\ conversation_history = EmptyDict
    /\ pcall = NoCall
    /\ answered = [c \in ConversationIds |-> 0]
    /\ run = [c \in ConversationIds |-> 0]
    /\ request = [cid |-> "-", messages |-> <<>>]
    /\ wf = WfIdle
    /\ validation = NotValidated

\* ---- connect ------------------------------------------------------------
\* connect called: suspended on `await websocket.accept()` (line 34).
\* One connect is suspended on accept at a time: a pending accept changes no
\* state of the manager, so two pending accepts act like two connects that
\* begin one after the other.
ConnectBegin(c, budget) ==
    /\ nextHandle <= budget
    /\ \A h \in Handles : ws[h].st # "accepting"
    /\ ws' = [ws EXCEPT ![nextHandle] = [cid |-> c, st |-> "accepting"]]
    /\ nextHandle' = nextHandle + 1
    /\ UNCHANGED <<active_connections, key_order, connection_info,
                   heartbeat_tasks, rooms, tasks, op, error>>
    /\ UNCHANGED <<aivars, wfvars>>

\* accept() returned: lines 35-48 run without suspension.
ConnectAccepted(h) ==
    /\ ws[h].st = "accepting"
    /\ LET c == ws[h].cid
           S == register(Cur, h, c)
       IN  /\ Install(S)
           /\ ws' = [x \in Handles |->
                       IF x = h THEN [ws[x] EXCEPT !.st = "live"]
                       ELSE IF x \in LiveHandles(ws, c)
                            THEN [ws[x] EXCEPT !.st = "replaced"]
                            ELSE ws[x]]
    /\ UNCHANGED <<nextHandle, op, error>>
    /\ UNCHANGED <<aivars, wfvars>>

\* Mutant: the session is registered before accept() is awaited, and stays
\* registered when accept() raises.
ConnectRefused_after_registering(h) ==
    /\ ws[h].st = "accepting"
    /\ Install(register(Cur, h, ws[h].cid))
    /\ ws' = [ws EXCEPT ![h].st = "refused"]
    /\ UNCHANGED <<nextHandle, op, error>>
    /\ UNCHANGED <<aivars, wfvars>>

\* accept() raised: connect raises to its caller before line 35.
ConnectRefused(h) ==
    /\ ws[h].st = "accepting"
    /\ ws' = [ws EXCEPT ![h].st = "refused"]
    /\ UNCHANGED <<active_connections, key_order, connection_info,
                   heartbeat_tasks, rooms, tasks, nextHandle, op, error>>
    /\ UNCHANGED <<aivars, wfvars>>

\* ---- disconnect ---------------------------------------------------------
Disconnect(c) ==
    /\ LET S == disconnect(Cur, c)
       IN  /\ Install(S)
           /\ error' = S.error
    /\ ws' = Closed(ws, c)
    /\ UNCHANGED <<nextHandle, op>>
    /\ UNCHANGED <<aivars, wfvars>>

\* ---- _heartbeat (lines 87-101), one task per connect --------------------
\* Mutant: `if` for the `while` of line 90, the loop body runs once.
LoopPcOnce(S, c) == "done"

\* get_connection_count (lines 103-105).
get_connection_count == Cardinality(DOMAIN active_connections)

\* After a send returned (or at the start): the loop test of line 90.
LoopPc(S, c) == IF c \in DOMAIN S.active_connections THEN "sleep" ELSE "done"

\* First run of the task: line 90, then suspended on sleep (line 91).
HbStart(t) ==
    /\ tasks[t].pc = "start"
    /\ tasks' = [tasks EXCEPT ![t].pc =
                    IF tasks[t].cancel THEN "done" ELSE LoopPc(Cur, ws[t].cid)]
    /\ UNCHANGED <<active_connections, key_order, connection_info,
                   heartbeat_tasks, rooms, ws, nextHandle, op, error>>
    /\ UNCHANGED <<aivars, wfvars>>

\* The sleep ended (timer, or cancellation): lines 93-94 up to the
\* suspension on send_json inside send_message, or line 90 again.
HbWake(t, capped) ==
    /\ tasks[t].pc = "sleep"
    /\ LET c == ws[t].cid
           h == send_target(Cur, c)
       IN  tasks' = [tasks EXCEPT ![t] =
                        IF tasks[t].cancel THEN [@ EXCEPT !.pc = "done"]
                        ELSE IF h # NoHandle THEN [@ EXCEPT !.pc = "send", !.to = h]
                        ELSE [@ EXCEPT !.pc = LoopPc(Cur, c)]]
    /\ UNCHANGED <<active_connections, key_order, connection_info,
                   heartbeat_tasks, rooms, ws, nextHandle, op, error>>
    /\ capped => WithinCap'
    /\ UNCHANGED <<aivars, wfvars>>

\* send_json returned or raised in the heartbeat's send_message; a canceled
\* task gets CancelledError at the await instead and ends (lines 98-99).
HbSendDone(t, ok) ==
    /\ tasks[t].pc = "send"
    /\ LET c == ws[t].cid
           S == IF tasks[t].cancel THEN Cur ELSE send_finish(Cur, c, ok)
           pc2 == IF tasks[t].cancel THEN "done" ELSE LoopPc(S, c)
       IN  /\ Install([S EXCEPT !.tasks[t].pc = pc2, !.tasks[t].to = NoHandle])
           /\ ws' = IF ~tasks[t].cancel /\ Evicts(Cur, c, ok) THEN Closed(ws, c) ELSE ws
    /\ UNCHANGED <<nextHandle, op, error>>
    /\ UNCHANGED <<aivars, wfvars>>

\* ---- join_room / leave_room (lines 131-144) ------------------------------
join_room(S, c, r) ==
    [S EXCEPT !.rooms = DictSet(@, r, (IF r \in DOMAIN @ THEN @[r] ELSE {}) \cup {c})]

\* Mutant: lines 142-143 left out, the emptied room stays in the map.
leave_room_keeps_empty(S, c, r) ==
    IF r \in DOMAIN S.rooms THEN [S EXCEPT !.rooms[r] = @ \ {c}] ELSE S

leave_room(S, c, r) ==
    IF r \in DOMAIN S.rooms
    THEN IF S.rooms[r] \ {c} = {}
         THEN [S EXCEPT !.rooms = DictDel(@, r)]
         ELSE [S EXCEPT !.rooms[r] = @ \ {c}]
    ELSE S

JoinRoom(c, r) ==
    /\ LET S == join_room(Cur, c, r)
       IN  Install(S) /\ error' = S.error
    /\ UNCHANGED <<ws, nextHandle, op>>
    /\ UNCHANGED <<aivars, wfvars>>

\* A send_to_room in flight iterates the set object itself: emptying that
\* object (the last member leaves) is seen by its iterator even when a later
\* join creates a new set under the same name.
LeaveRoom(c, r) ==
    /\ LET S == leave_room(Cur, c, r)
       IN  /\ Install(S) /\ error' = S.error
           /\ op' = IF op.kind = "room" /\ op.pc = "sending" /\ op.room = r
                       /\ r \in DOMAIN rooms /\ rooms[r] \ {c} = {}
                    THEN [op EXCEPT !.stale = TRUE] ELSE op
    /\ UNCHANGED <<ws, nextHandle>>
    /\ UNCHANGED <<aivars, wfvars>>

\* ---- application calls that suspend ------------------------------------
Free == op.pc \in {"idle", "done"}

\* The call has returned: what is kept of it is its result and the record of
\* what it did.
Finished(o) ==
    [Idle EXCEPT !.kind = o.kind, !.pc = "done", !.mtype = o.mtype,
                 !.room = o.room, !.exclude = o.exclude, !.snap = o.snap,
                 !.attempted = o.attempted, !.failed = o.failed,
                 !.error = o.error]

\* send_message called by the application.
SendBegin(c, capped) ==
    /\ Free
    /\ LET h == send_target(Cur, c)
       IN  op' = IF h = NoHandle
                 THEN Finished([Idle EXCEPT !.kind = "send", !.mtype = "app"])
                 ELSE [Idle EXCEPT !.kind = "send", !.pc = "sending", !.cid = c,
                                   !.to = h, !.mtype = "app", !.attempted = {c}]
    /\ UNCHANGED <<active_connections, key_order, connection_info,
                   heartbeat_tasks, rooms, tasks, ws, nextHandle, error>>
    /\ capped => WithinCap'
    /\ UNCHANGED <<aivars, wfvars>>

SendDone(ok) ==
    /\ op.kind = "send" /\ op.pc = "sending"
    /\ Install(send_finish(Cur, op.cid, ok))
    /\ ws' = IF Evicts(Cur, op.cid, ok) THEN Closed(ws, op.cid) ELSE ws
    /\ op' = Finished([op EXCEPT !.failed = IF ok THEN @ ELSE @ \cup {op.cid}])
    /\ UNCHANGED <<nextHandle, error>>
    /\ UNCHANGED <<aivars, wfvars>>

\* ---- broadcast (lines 79-85) -------------------------------------------
\* The loop of line 83 from the head of o.todo up to the next suspension on
\* send_json, or to the end of the list.
RECURSIVE broadcast_next(_, _)
\* Mutant: a failed send ends the loop, as if the error left send_message.
broadcast_next_aborts(S, o) ==
    IF o.todo = <<>> \/ o.failed # {} THEN Finished(o)
    ELSE LET c == Head(o.todo)
             o1 == [o EXCEPT !.todo = Tail(@)]
             h == send_target(S, c)
         IN  IF c \in o.exclude \/ h = NoHandle THEN broadcast_next(S, o1)
             ELSE [o1 EXCEPT !.pc = "sending", !.cid = c, !.to = h,
                             !.attempted = @ \cup {c}]

broadcast_next(S, o) ==
    IF o.todo = <<>> THEN Finished(o)
    ELSE LET c == Head(o.todo)
             o1 == [o EXCEPT !.todo = Tail(@)]
             h == send_target(S, c)
         IN  IF c \in o.exclude \/ h = NoHandle THEN broadcast_next(S, o1)
             ELSE [o1 EXCEPT !.pc = "sending", !.cid = c, !.to = h,
                             !.attempted = @ \cup {c}]

BroadcastBegin(exclude, capped) ==
    /\ Free
    /\ op' = broadcast_next(Cur, [Idle EXCEPT !.kind = "broadcast", !.mtype = "app",
                                   !.todo = key_order, !.exclude = exclude,
                                   !.snap = active_connections])
    /\ UNCHANGED <<active_connections, key_order, connection_info,
                   heartbeat_tasks, rooms, tasks, ws, nextHandle, error>>
    /\ capped => WithinCap'
    /\ UNCHANGED <<aivars, wfvars>>

BroadcastSendDone(ok, capped) ==
    /\ op.kind = "broadcast" /\ op.pc = "sending"
    /\ LET S == send_finish(Cur, op.cid, ok)
       IN  /\ Install(S)
           /\ op' = broadcast_next(S, [op EXCEPT !.failed =
                                          IF ok THEN @ ELSE @ \cup {op.cid}])
    /\ ws' = IF Evicts(Cur, op.cid, ok) THEN Closed(ws, op.cid) ELSE ws
    /\ UNCHANGED <<nextHandle, error>>
    /\ capped => WithinCap'
    /\ UNCHANGED <<aivars, wfvars>>

\* ---- send_to_room (lines 146-150) --------------------------------------
\* The iterator of line 149 resumed: the outcomes of the loop up to the next
\* suspension on send_json. A set iterator raises RuntimeError when the set's
\* size differs from the size at its creation; the order of a set is not
\* specified, so any unvisited member may come next, and a member that joined
\* during the iteration may be passed over.
\* Mutant: the loop runs over the registry instead of the room's members.
room_next_all_sessions(S, o) ==
    LET cand == (DOMAIN S.active_connections) \ o.visited
    IN  IF cand = {} THEN {Finished(o)}
        ELSE {[o EXCEPT !.pc = "sending", !.cid = c, !.to = send_target(S, c),
                        !.visited = @ \cup {c}, !.attempted = @ \cup {c}] :
                c \in cand}

room_next(S, o) ==
    LET cur    == IF o.room \in DOMAIN S.rooms THEN S.rooms[o.room] ELSE {}
        cand   == cur \ o.visited
        reg    == {c \in cand : send_target(S, c) # NoHandle}
        late   == cand \ o.members0
        passed(c) == SUBSET (((cand \ reg) \cup late) \ {c})
        sends  == UNION {{[o EXCEPT !.pc = "sending", !.cid = c,
                                    !.to = send_target(S, c),
                                    !.visited = @ \cup K \cup {c},
                                    !.attempted = @ \cup {c}] :
                            K \in passed(c)} : c \in reg}
        ends   == IF reg \subseteq late THEN {Finished(o)} ELSE {}
    IN  IF o.stale \/ Cardinality(cur) # Cardinality(o.members0)
        THEN {[Finished(o) EXCEPT !.error = "RuntimeError"]}
        ELSE sends \cup ends

RoomBegin(r, mt, capped) ==
    /\ Free
    /\ IF r \in DOMAIN rooms
       THEN op' \in room_next(Cur, [Idle EXCEPT !.kind = "room", !.room = r,
                                      !.mtype = mt, !.members0 = rooms[r]])
       ELSE op' = Finished([Idle EXCEPT !.kind = "room", !.room = r, !.mtype = mt])
    /\ UNCHANGED <<active_connections, key_order, connection_info,
                   heartbeat_tasks, rooms, tasks, ws, nextHandle, error>>
    /\ capped => WithinCap'
    /\ UNCHANGED <<aivars, wfvars>>

\* send_to_room(room_name, message) with a message of the application.
SendToRoom(r, capped) == RoomBegin(r, "app", capped)

\* broadcast_queue_update (lines 152-158).
BroadcastQueueUpdate(capped) == RoomBegin("queue_monitor", "queue_update", capped)

\* broadcast_call_update (lines 160-166).
BroadcastCallUpdate(capped) == RoomBegin("call_monitor", "call_update", capped)

RoomSendDone(ok, capped) ==
    /\ op.kind = "room" /\ op.pc = "sending"
    /\ LET S == send_finish(Cur, op.cid, ok)
       IN  /\ Install(S)
           /\ op' \in room_next(S, [op EXCEPT !.failed =
                                       IF ok THEN @ ELSE @ \cup {op.cid}])
    /\ ws' = IF Evicts(Cur, op.cid, ok) THEN Closed(ws, op.cid) ELSE ws
    /\ UNCHANGED <<nextHandle, error>>
    /\ capped => WithinCap'
    /\ UNCHANGED <<aivars, wfvars>>

\* ---- close_all (lines 115-128) -----------------------------------------
\* The loop of line 119 from the head of o.todo up to the next suspension on
\* close(). An id that is no longer registered raises KeyError at line 121,
\* which the bare except swallows; the finally still calls disconnect.
RECURSIVE close_next(_, _, _)
close_next(S, o, w) ==
    IF o.todo = <<>> THEN [S |-> S, o |-> Finished(o), w |-> w]
    ELSE LET c == Head(o.todo)
             o1 == [o EXCEPT !.todo = Tail(@)]
         IN  IF c \in DOMAIN S.active_connections
             THEN [S |-> S, w |-> w,
                   o |-> [o1 EXCEPT !.pc = "closing", !.cid = c,
                                    !.to = S.active_connections[c]]]
             ELSE close_next(disconnect(S, c), o1, Closed(w, c))

CloseAllBegin ==
    /\ Free
    /\ LET R == close_next(Cur, [Idle EXCEPT !.kind = "close_all",
                                   !.todo = key_order], ws)
       IN  Install(R.S) /\ op' = R.o /\ ws' = R.w
    /\ UNCHANGED <<nextHandle, error>>
    /\ UNCHANGED <<aivars, wfvars>>

\* close() returned or raised (the same to close_all): the finally of line
\* 126, then the loop goes on.
CloseDone ==
    /\ op.kind = "close_all" /\ op.pc = "closing"
    /\ LET R == close_next(disconnect(Cur, op.cid), op, Closed(ws, op.cid))
       IN  Install(R.S) /\ op' = R.o /\ ws' = R.w
    /\ UNCHANGED <<nextHandle, error>>
    /\ UNCHANGED <<aivars, wfvars>>

(***************************************************************************)
(* Part 2: services/ai_service.py (AIService) and core/pipeline.py          *)
(* (AIPipeline).                                                           *)
(* STTService.transcribe_audio and AIService.get_response are `async def`  *)
(* without an await inside (the Whisper and Groq calls are synchronous), so *)
(* `await self.stt.transcribe_audio(..)` and `await self.ai.get_response`   *)
(* do not suspend. Both catch every Exception and return a result dict.    *)
(* services/tts_service.py is not part of the sources: the Synthesizer is a *)
(* collaborator that may suspend, and then returns a success result,       *)
(* returns a failure result, or raises.                                    *)
(***************************************************************************)
\* ---- bounds -------------------------------------------------------------
\* Replies produced by the Reasoner in the specification of the history.
MaxExchanges == 11
\* Replies produced by the Reasoner in the specification of the pipeline.
MaxPipeCalls == 3

\* len(history) > 20 and [-20:] (ai_service.py lines 118-120).
HistoryCap == 20

\* transcribe_audio: returns success (line 86) or failure (line 96).
SttOutcomes == {"ok", "fail"}

\* get_response: the Groq call raises (line 57, "fail"); it returns and the
\* success dict is built (line 76, "ok"); it returns a response without usage
\* data, so that line 72 raises after line 69 has stored the exchange ("late").
AiOutcomes == {"ok", "fail", "late"}

\* text_to_speech_bytes, a collaborator: success, failure result, exception.
TtsOutcomes == {"ok", "fail", "raise"}

\* The k-th utterance of a caller and the Reasoner's reply to it. A caller
\* repeats an utterance until the Reasoner has replied to it.
Text(k) == <<"text", k>>

Reply(k) == <<"reply", k>>

Entry(role, content) == [role |-> role, content |-> content]

HistoryOf(H, c) == IF c \in DOMAIN H THEN H[c] ELSE <<>>

\* s[-n:]
LastN(s, n) == IF Len(s) > n THEN SubSeq(s, Len(s) - n + 1, Len(s)) ELSE s

Total(f) == f[""] + f["A"]

\* ---- AIService ----------------------------------------------------------
\* Mutant: lines 118-120 left out, the list is never cut.
_update_history_untrimmed(H, c, user_msg, ai_msg) ==
    DictSet(H, c, HistoryOf(H, c) \o <<Entry("user", user_msg),
                                       Entry("assistant", ai_msg)>>)

\* _update_history (lines 107-120).
_update_history(H, c, user_msg, ai_msg) ==
    LET h == HistoryOf(H, c) \o <<Entry("user", user_msg),
                                  Entry("assistant", ai_msg)>>
    IN  DictSet(H, c, IF Len(h) > HistoryCap THEN LastN(h, HistoryCap) ELSE h)

\* self.system_prompt (lines 24-27).
system_prompt == <<"prompt", 0>>

\* Mutant: the slice of line 99 left out, the whole stored history is sent.
_build_messages_whole_history(H, user_message, c) ==
    <<Entry("system", system_prompt)>> \o HistoryOf(H, c)
      \o <<Entry("user", user_message)>>

\* _build_messages (lines 93-105).
_build_messages(H, user_message, c) ==
    <<Entry("system", system_prompt)>> \o LastN(HistoryOf(H, c), 10)
      \o <<Entry("user", user_message)>>

\* Mutant: the user's entry is stored before the Reasoner is called, the
\* assistant's entry when it has answered.
get_response_stores_question_first(H, c, user_msg, ai_msg, ai) ==
    IF ai = "fail"
    THEN [messages |-> _build_messages(H, user_msg, c),
          H |-> DictSet(H, c, LastN(Append(HistoryOf(H, c), Entry("user", user_msg)),
                                    HistoryCap)),
          result |-> [success |-> FALSE, response |-> "trouble", error |-> "exception"]]
    ELSE IF ai = "ok"
    THEN [messages |-> _build_messages(H, user_msg, c),
          H |-> _update_history(H, c, user_msg, ai_msg),
          result |-> [success |-> TRUE, response |-> ai_msg]]
    ELSE [messages |-> _build_messages(H, user_msg, c),
          H |-> _update_history(H, c, user_msg, ai_msg),
          result |-> [success |-> FALSE, response |-> "trouble", error |-> "exception"]]

\* get_response (lines 31-91): the messages it sends to the Reasoner, the
\* history after the call and the dict it returns. ai_msg is the text the
\* Reasoner produces when it answers.
get_response(H, c, user_msg, ai_msg, ai) ==
    IF ai = "ok"
    THEN [messages |-> _build_messages(H, user_msg, c),
          H |-> _update_history(H, c, user_msg, ai_msg),
          result |-> [success |-> TRUE, response |-> ai_msg]]
    ELSE [messages |-> _build_messages(H, user_msg, c),
          H |-> IF ai = "late" THEN _update_history(H, c, user_msg, ai_msg) ELSE H,
          result |-> [success |-> FALSE, response |-> "trouble", error |-> "exception"]]

\* reset_conversation (lines 153-160): `if call_id:` is false for None and
\* for the empty string.
reset_conversation(H, id) ==
    IF id # None /\ id # "" THEN DictDel(H, id) ELSE EmptyDict

\* ---- AIPipeline ---------------------------------------------------------
\* _error_response (lines 171-178).
_error_response(c, stage, err) ==
    [success |-> FALSE, call_id |-> c, stage |-> stage, error |-> err]

\* A call returns res.
Returned(p, res) == [p EXCEPT !.pc = "done", !.result = res]

\* A call begins; h0 and h1 record the history of its call_id at its start
\* and after its Reasoner stage (the call does not touch it later).
NewCall(kind, c, H) ==
    [NoCall EXCEPT !.kind = kind, !.pc = "run", !.cid = c,
                   !.h0 = HistoryOf(H, c), !.h1 = HistoryOf(H, c)]

\* The Reasoner stage and the call of the Synthesizer: lines 58-74 of
\* process_audio, lines 125-135 of process_text.
ai_stage(H, p, user_text, ai_msg, ai) ==
    LET R  == get_response(H, p.cid, user_text, ai_msg, ai)
        p1 == [p EXCEPT !.invoked = Append(@, "ai"), !.outs = Append(@, ai),
                        !.text = user_text, !.h1 = HistoryOf(R.H, p.cid)]
    IN  IF ~R.result.success
        THEN [H |-> R.H, messages |-> R.messages,
              call |-> Returned(p1, _error_response(p.cid, "AI failed", R.result.error))]
        ELSE [H |-> R.H, messages |-> R.messages,
              call |-> [p1 EXCEPT !.reply = R.result.response, !.pc = "tts",
                                  !.invoked = Append(@, "tts")]]

\* Mutant: the test of line 48 left out, a failed transcription goes on.
process_audio_ignores_stt_failure(H, c, user_text, ai_msg, stt, ai) ==
    ai_stage(H, [NewCall("audio", c, H) EXCEPT !.invoked = <<"stt">>,
                                               !.outs = <<stt>>],
             user_text, ai_msg, ai)

\* process_audio (lines 24-109) up to its suspension on the Synthesizer.
process_audio(H, c, user_text, ai_msg, stt, ai) ==
    LET p == [NewCall("audio", c, H) EXCEPT !.invoked = <<"stt">>, !.outs = <<stt>>]
    IN  IF stt # "ok"
        THEN [H |-> H, messages |-> <<>>,
              call |-> Returned(p, _error_response(c, "STT failed", "error"))]
        ELSE ai_stage(H, p, user_text, ai_msg, ai)

\* process_text (lines 111-157) up to its suspension on the Synthesizer.
process_text(H, c, text, ai_msg, ai) ==
    ai_stage(H, NewCall("text", c, H), text, ai_msg, ai)

\* The stage name of the outermost handler (lines 107-109, 155-157).
CaughtStage(p) == IF p.kind = "audio" THEN "Pipeline error" ELSE "Processing error"

\* Mutant: a failed synthesis is tried a second time.
tts_done_retries(p, out) ==
    LET p1 == [p EXCEPT !.outs = Append(@, out)]
    IN  IF out = "ok"
        THEN Returned(p1, [success |-> TRUE, call_id |-> p.cid,
                           ai_response |-> p.reply, audio_data |-> "audio"])
        ELSE IF Len(p.outs) < 3
        THEN [p1 EXCEPT !.invoked = Append(@, "tts")]
        ELSE Returned(p1, _error_response(p.cid, "TTS failed", "error"))

\* Mutant: no outermost handler, the collaborator's exception leaves the call.
tts_done_reraises(p, out) ==
    LET p1 == [p EXCEPT !.outs = Append(@, out)]
    IN  IF out = "raise" THEN [p1 EXCEPT !.pc = "raised"]
        ELSE IF out = "fail"
        THEN Returned(p1, _error_response(p.cid, "TTS failed", "error"))
        ELSE Returned(p1, [success |-> TRUE, call_id |-> p.cid,
                           ai_response |-> p.reply, audio_data |-> "audio"])

\* The Synthesizer returned or raised: lines 76-109 of process_audio, lines
\* 137-157 of process_text.
tts_done(p, out) ==
    LET p1 == [p EXCEPT !.outs = Append(@, out)]
    IN  IF out = "raise"
        THEN Returned(p1, _error_response(p.cid, CaughtStage(p), "exception"))
        ELSE IF out = "fail"
        THEN Returned(p1, _error_response(p.cid, "TTS failed", "error"))
        ELSE IF p.kind = "audio"
        THEN Returned(p1, [success |-> TRUE, call_id |-> p.cid,
                           transcription |-> p.text, ai_response |-> p.reply,
                           audio_data |-> "audio"])
        ELSE Returned(p1, [success |-> TRUE, call_id |-> p.cid,
                           ai_response |-> p.reply, audio_data |-> "audio"])

\* ---- actions of the services -------------------------------------------
\* The Reasoner produced a reply in a call made with these outcomes.
Replied(stt, ai) == stt = "ok" /\ ai # "fail"

Count(f, c, yes) == IF yes THEN [f EXCEPT ![c] = @ + 1] ELSE f

PipeFree == pcall.pc \in {"idle", "done"}

\* AIService.get_response called directly.
GetResponse(c, ai) ==
    /\ Total(answered) < MaxExchanges
    /\ LET k == answered[c] + 1
           R == get_response(conversation_history, c, Text(k), Reply(k), ai)
       IN  /\ conversation_history' = R.H
           /\ request' = [cid |-> c, messages |-> R.messages]
    /\ answered' = Count(answered, c, Replied("ok", ai))
    /\ run' = Count(run, c, Replied("ok", ai))
    /\ UNCHANGED <<pcall, cmvars, wfvars>>

\* AIPipeline.reset_conversation (lines 159-161), which is
\* AIService.reset_conversation.
ResetConversation(id) ==
    /\ conversation_history' = reset_conversation(conversation_history, id)
    /\ run' = [c \in ConversationIds |-> 0]
    /\ UNCHANGED <<pcall, answered, request, cmvars, wfvars>>

ProcessAudio(c, stt, ai) ==
    /\ PipeFree
    /\ Total(answered) < MaxPipeCalls
    /\ LET k == answered[c] + 1
           R == process_audio(conversation_history, c, Text(k), Reply(k), stt, ai)
       IN  /\ conversation_history' = R.H /\ pcall' = R.call
           /\ request' = [cid |-> c, messages |-> R.messages]
    /\ answered' = Count(answered, c, Replied(stt, ai))
    /\ run' = Count(run, c, Replied(stt, ai))
    /\ UNCHANGED <<cmvars, wfvars>>

ProcessText(c, ai) ==
    /\ PipeFree
    /\ Total(answered) < MaxPipeCalls
    /\ LET k == answered[c] + 1
           R == process_text(conversation_history, c, Text(k), Reply(k), ai)
       IN  /\ conversation_history' = R.H /\ pcall' = R.call
           /\ request' = [cid |-> c, messages |-> R.messages]
    /\ answered' = Count(answered, c, Replied("ok", ai))
    /\ run' = Count(run, c, Replied("ok", ai))
    /\ UNCHANGED <<cmvars, wfvars>>

TtsDone(out) ==
    /\ pcall.pc = "tts"
    /\ pcall' = tts_done(pcall, out)
    /\ UNCHANGED <<conversation_history, answered, run, request, cmvars, wfvars>>

(***************************************************************************)
(* Part 3: config/workflow_nodes.py, the node engine.                      *)
(* execute_workflow_node runs without suspension except where a handler    *)
(* awaits the Synthesizer (pipeline.tts.text_to_speech_bytes). A handler   *)
(* that speaks first constructs AIPipeline(), whose constructor raises     *)
(* when a service cannot be set up (AIService without GROQ_API_KEY).       *)
(* A string is a sequence of characters where the code looks inside it     *)
(* (the destination of a transfer), and an opaque value elsewhere.         *)
(***************************************************************************)
\* NodeType (lines 22-38): the values of the enum.
NodeTypes ==
    {"greeting", "audio", "menu", "input", "speech_input", "conditional",
     "voicemail", "transfer", "repeat", "end", "ai_assistant", "queue", "sms",
     "set_variable", "api_call"}

\* The handle_* methods WorkflowNodeHandler defines (lines 566-773).
Handlers ==
    {"handle_greeting", "handle_audio", "handle_menu", "handle_user_input",
     "handle_speech_input", "handle_conditional", "handle_voicemail",
     "handle_transfer", "handle_repeat", "handle_end", "handle_ai_assistant"}

\* f"handle_{node_type.value}" (line 554).
HandlerName ==
    [greeting |-> "handle_greeting", audio |-> "handle_audio",
     menu |-> "handle_menu", input |-> "handle_input",
     speech_input |-> "handle_speech_input",
     conditional |-> "handle_conditional", voicemail |-> "handle_voicemail",
     transfer |-> "handle_transfer", repeat |-> "handle_repeat",
     end |-> "handle_end", ai_assistant |-> "handle_ai_assistant",
     queue |-> "handle_queue", sms |-> "handle_sms",
     set_variable |-> "handle_set_variable", api_call |-> "handle_api_call"]

\* getattr(self, f"handle_{node_type.value}", None) (line 554).
handler_method(nt) ==
    IF HandlerName[nt] \in Handlers THEN HandlerName[nt] ELSE "none"

\* dict.get(key, default)
get(d, k, default) == IF k \in DOMAIN d THEN d[k] ELSE default

\* Truth value of a text or None.
Truthy(v) == v # None /\ v # ""

\* a or b
Or(a, b) == IF Truthy(a) THEN a ELSE b

\* ---- values of context variables and of a condition's operands ----------
\* A Python value whose content the conditions inspect: None, a str (its
\* characters) or an int (its decimal digits, after a sign).
PyNone == [t |-> "none", v |-> <<>>]

PyStr(chars) == [t |-> "str", v |-> chars]

PyInt(numeral) == [t |-> "int", v |-> numeral]

Digits == {"0", "1", "2", "3", "4", "5", "6", "7", "8", "9"}

DigitValue ==
    [d \in Digits |->
       CASE d = "0" -> 0 [] d = "1" -> 1 [] d = "2" -> 2 [] d = "3" -> 3
         [] d = "4" -> 4 [] d = "5" -> 5 [] d = "6" -> 6 [] d = "7" -> 7
         [] d = "8" -> 8 [] d = "9" -> 9]

\* str(x)
str(x) == IF x.t = "none" THEN <<"N", "o", "n", "e">> ELSE x.v

\* The characters after an optional sign.
Unsigned(chars) ==
    IF chars # <<>> /\ Head(chars) \in {"+", "-"} THEN Tail(chars) ELSE chars

\* float(x) returns: x is an int, or a str that spells a number. The strings
\* here spell numbers as an optional sign and decimal digits.
Parses(x) ==
    /\ x.t \in {"int", "str"}
    /\ Unsigned(x.v) # <<>>
    /\ \A i \in 1..Len(Unsigned(x.v)) : Unsigned(x.v)[i] \in Digits

RECURSIVE Magnitude(_)
Magnitude(digits) ==
    IF digits = <<>> THEN 0
    ELSE 10 * Magnitude(SubSeq(digits, 1, Len(digits) - 1))
         + DigitValue[digits[Len(digits)]]

\* float(x), for an x that parses.
float(x) ==
    IF Head(x.v) = "-" THEN 0 - Magnitude(Unsigned(x.v))
    ELSE Magnitude(Unsigned(x.v))

\* sub in s, for strings.
In(sub, s) ==
    \E i \in 1..(Len(s) + 1) :
        /\ i + Len(sub) - 1 <= Len(s)
        /\ SubSeq(s, i, i + Len(sub) - 1) = sub

\* re.compile(pattern) raises re.error: of the patterns here, those with a
\* character set or a group that is not closed.
BadPattern(pattern) ==
    \/ \E i \in 1..Len(pattern) :
          pattern[i] = "[" /\ \A j \in (i + 1)..Len(pattern) : pattern[j] # "]"
    \/ \E i \in 1..Len(pattern) :
          pattern[i] = "(" /\ \A j \in (i + 1)..Len(pattern) : pattern[j] # ")"

\* bool(re.search(pattern, s)) for a pattern that compiles: a pattern
\* without special characters is found where it occurs in s.
search(pattern, s) == In(pattern, s)

\* What a call returns or raises.
Returns(value) == [raised |-> FALSE, value |-> value]

Raises == [raised |-> TRUE, value |-> FALSE]

\* Mutant: greater_than and less_than compare the operands as strings do,
\* by their length first.
evaluate_condition_compares_text(actual_value, operator, expected_value) ==
    CASE operator = "equals" -> Returns(str(actual_value) = str(expected_value))
      [] operator = "not_equals" ->
           Returns(str(actual_value) # str(expected_value))
      [] operator = "contains" ->
           Returns(In(str(expected_value), str(actual_value)))
      [] operator = "greater_than" ->
           Returns(Len(str(actual_value)) > Len(str(expected_value)))
      [] operator = "less_than" ->
           Returns(Len(str(actual_value)) < Len(str(expected_value)))
      [] operator = "exists" ->
           Returns(actual_value # PyNone /\ actual_value # PyStr(<<>>))
      [] operator = "regex" ->
           IF BadPattern(str(expected_value)) THEN Raises
           ELSE Returns(search(str(expected_value), str(actual_value)))
      [] OTHER -> Returns(FALSE)

\* Mutant: exists compares the value with the expected value.
evaluate_condition_exists_compares(actual_value, operator, expected_value) ==
    CASE operator = "equals" -> Returns(str(actual_value) = str(expected_value))
      [] operator = "not_equals" ->
           Returns(str(actual_value) # str(expected_value))
      [] operator = "contains" ->
           Returns(In(str(expected_value), str(actual_value)))
      [] operator = "greater_than" ->
           IF Parses(actual_value) /\ Parses(expected_value)
           THEN Returns(float(actual_value) > float(expected_value))
           ELSE Returns(FALSE)
      [] operator = "less_than" ->
           IF Parses(actual_value) /\ Parses(expected_value)
           THEN Returns(float(actual_value) < float(expected_value))
           ELSE Returns(FALSE)
      [] operator = "exists" ->
           Returns(actual_value # PyNone /\ actual_value # expected_value)
      [] operator = "regex" ->
           IF BadPattern(str(expected_value)) THEN Raises
           ELSE Returns(search(str(expected_value), str(actual_value)))
      [] OTHER -> Returns(FALSE)

\* evaluate_condition (lines 775-797). float raises ValueError or TypeError
\* for an operand that does not parse, and the handler of line 795 returns
\* False; re.search raises re.error, which that handler does not name.
evaluate_condition(actual_value, operator, expected_value) ==
    CASE operator = "equals" -> Returns(str(actual_value) = str(expected_value))
      [] operator = "not_equals" ->
           Returns(str(actual_value) # str(expected_value))
      [] operator = "contains" ->
           Returns(In(str(expected_value), str(actual_value)))
      [] operator = "greater_than" ->
           IF Parses(actual_value) /\ Parses(expected_value)
           THEN Returns(float(actual_value) > float(expected_value))
           ELSE Returns(FALSE)
      [] operator = "less_than" ->
           IF Parses(actual_value) /\ Parses(expected_value)
           THEN Returns(float(actual_value) < float(expected_value))
           ELSE Returns(FALSE)
      [] operator = "exists" ->
           Returns(actual_value # PyNone /\ actual_value # PyStr(<<>>))
      [] operator = "regex" ->
           IF BadPattern(str(expected_value)) THEN Raises
           ELSE Returns(search(str(expected_value), str(actual_value)))
      [] OTHER -> Returns(FALSE)

\* ---- node data given to the engine --------------------------------------
GoodNumber == <<"+", "1", "4", "1", "5", "5", "5", "5", "0", "1", "2", "3">>

ShortNumber == <<"1", "2">>

NotANumber == <<"n", "o", "t", "-", "a", "-", "n", "u", "m", "b", "e", "r">>

LeadingZero == <<"0", "1", "2", "3">>

TooShort == <<"+", "1">>

Destinations == {GoodNumber, ShortNumber, NotANumber, LeadingZero, TooShort}

Timeouts == {0, 1, 30, 45, 120, 121}

Announcements == {"", "Please hold"}

\* A dict with the keys whose flag is set.
Field(has, k, v) == IF has THEN [x \in {k} |-> v] ELSE EmptyDict

NodeDatas ==
    {Field(hd, "destination", d) @@ Field(ht, "timeout", t)
       @@ Field(ha, "announce_text", a) @@ Field(hA, "announceText", A) :
     hd \in BOOLEAN, d \in Destinations, ht \in BOOLEAN, t \in Timeouts,
     ha \in BOOLEAN, a \in Announcements, hA \in BOOLEAN, A \in Announcements}

\* The texts of nodes, and the data of audio nodes.
MessageTexts == {"", "Hello"}

AudioDatas ==
    {Field(hm, "mode", m) @@ Field(hU, "audioUrl", U) @@ Field(hu, "audio_url", u)
       @@ Field(hM, "messageText", M) @@ Field(ht, "text", "Bye") :
     hm \in BOOLEAN, m \in {"tts", "upload"},
     hU \in BOOLEAN, U \in {"", "https://cdn.example/a.mp3"},
     hu \in BOOLEAN, u \in {"", "https://cdn.example/a.mp3"},
     hM \in BOOLEAN, M \in MessageTexts, ht \in BOOLEAN}

\* The data of voicemail nodes.
VoicemailDatas ==
    {Field(hL, "maxLength", L) @@ Field(hl, "max_length", l)
       @@ Field(ht, "text", "Leave a message") :
     hL \in BOOLEAN, L \in {30, 90}, hl \in BOOLEAN, l \in {30, 90},
     ht \in BOOLEAN}

\* The values of a condition's operands; the data of conditional nodes (the
\* operators of OperatorType and a string that is none of them) and the
\* contexts they are evaluated in.
Values ==
    {PyNone, PyInt(<<"7">>), PyStr(<<>>), PyStr(<<"5">>), PyStr(<<"9">>),
     PyStr(<<"1", "0">>), PyStr(<<"-", "1">>), PyStr(<<"a", "b", "c">>),
     PyStr(<<"b">>), PyStr(<<"[">>)}

ConditionDatas ==
    {Field(hv, "variable", v) @@ Field(ho, "operator", o) @@ Field(he, "value", e) :
     hv \in BOOLEAN, v \in {"caller_input", "digits"},
     ho \in BOOLEAN,
     o \in {"equals", "not_equals", "contains", "greater_than", "less_than",
            "exists", "regex", "starts_with"},
     he \in BOOLEAN, e \in Values}

Contexts == {Field(has, "caller_input", x) : has \in BOOLEAN, x \in Values}

\* The data of the other nodes.
TextDatas ==
    {Field(ht, "text", t) @@ Field(hw, "welcome_message", "Hi")
       @@ Field(hr, "repeat_message", "Again") :
     ht \in BOOLEAN, t \in MessageTexts, hw \in BOOLEAN, hr \in BOOLEAN}

\* The data given with a node of a type: the fields the type's handler and
\* schema read.
NodeDataOf(nt) ==
    CASE nt = "transfer" -> NodeDatas
      [] nt = "audio" -> AudioDatas
      [] nt = "voicemail" -> VoicemailDatas
      [] nt = "conditional" -> ConditionDatas
      [] OTHER -> TextDatas

\* node_type strings given to the engine: the enum's values and others.
NodeTypeStrings == NodeTypes \cup {"bogus", "", "user_input", "Transfer"}

\* ---- the schema of a transfer node (lines 206-219) ----------------------
\* pattern ^\+?[1-9]\d{1,14}$ (line 208)
IsPhoneNumber(chars) ==
    LET body == IF chars # <<>> /\ Head(chars) = "+" THEN Tail(chars) ELSE chars
    IN  /\ Len(body) >= 2 /\ Len(body) <= 15
        /\ body[1] \in Digits \ {"0"}
        /\ \A i \in 2..Len(body) : body[i] \in Digits

\* TransferNodeData(**node_data): the constraints the data violates.
TransferNodeData(nd) ==
    (IF "destination" \notin DOMAIN nd THEN {"destination: field required"}
     ELSE IF ~IsPhoneNumber(nd["destination"]) THEN {"destination: pattern"}
     ELSE {})
    \cup
    (IF "timeout" \in DOMAIN nd /\ nd["timeout"] < 1 THEN {"timeout: ge 1"}
     ELSE IF "timeout" \in DOMAIN nd /\ nd["timeout"] > 120 THEN {"timeout: le 120"}
     ELSE {})

\* ---- handlers (lines 566-773) -------------------------------------------
\* What a handler hands to the Synthesizer, if anything.
Speak(text) == [speak |-> TRUE, text |-> text]

Silent == [speak |-> FALSE, text |-> None]

\* Mutant: a transfer announces in any case.
handler_speech_always_announces(h, nd) ==
    IF h = "handle_transfer" THEN Speak(get(nd, "announce_text", "Transferring"))
    ELSE Speak(get(nd, "text", "Welcome to our service."))

handler_speech(h, nd) ==
    CASE h \in {"handle_greeting", "handle_menu"} ->
           Speak(get(nd, "text", "Welcome to our service."))
      [] h = "handle_audio" ->
           IF get(nd, "mode", "tts") = "upload"
              /\ Truthy(Or(get(nd, "audioUrl", None), get(nd, "audio_url", None)))
           THEN Silent
           ELSE Speak(Or(get(nd, "messageText", None),
                         get(nd, "text", "Welcome to our service.")))
      [] h \in {"handle_user_input", "handle_speech_input"} ->
           Speak(get(nd, "text", "Please enter your selection."))
      [] h = "handle_voicemail" ->
           Speak(get(nd, "text", "Please leave your message after the beep."))
      [] h = "handle_transfer" ->
           IF Truthy(get(nd, "announce_text", None))
           THEN Speak(nd["announce_text"]) ELSE Silent
      [] h = "handle_repeat" ->
           Speak(get(nd, "repeat_message", "Repeating the options."))
      [] h = "handle_end" ->
           IF Truthy(get(nd, "text", None)) THEN Speak(nd["text"]) ELSE Silent
      [] h = "handle_ai_assistant" ->
           IF Truthy(get(nd, "welcome_message", None))
           THEN Speak(nd["welcome_message"]) ELSE Silent

\* The dict a handler returns; audio is audio_result.get("audio_data"), or
\* None when the handler did not speak.
handler_result(h, nd, audio) ==
    CASE h \in {"handle_greeting", "handle_menu"} ->
           [success |-> TRUE, action |-> "play_prompt", prompt_audio |-> audio,
            next_action |-> "wait_for_input"]
      [] h = "handle_audio" ->
           IF ~handler_speech(h, nd).speak
           THEN [success |-> TRUE, action |-> "play_audio",
                 audio_url |-> Or(get(nd, "audioUrl", None), get(nd, "audio_url", None)),
                 next_action |-> "wait_for_input"]
           ELSE [success |-> TRUE, action |-> "play_prompt", prompt_audio |-> audio,
                 next_action |-> "wait_for_input"]
      [] h \in {"handle_user_input", "handle_speech_input"} ->
           [success |-> TRUE, action |-> "collect_input", prompt_audio |-> audio,
            input_type |-> get(nd, "input_type", "digits"),
            num_digits |-> get(nd, "num_digits", 1),
            timeout |-> get(nd, "timeout", 10),
            next_action |-> "wait_for_input"]
      [] h = "handle_voicemail" ->
           [success |-> TRUE, action |-> "record_voicemail", prompt_audio |-> audio,
            max_length |-> get(nd, "max_length", 60),
            transcribe |-> get(nd, "transcribe", TRUE),
            next_action |-> "wait_for_recording"]
      [] h = "handle_transfer" ->
           [success |-> TRUE, action |-> "transfer_call",
            destination |-> get(nd, "destination", None),
            prompt_audio |-> audio,
            timeout |-> get(nd, "timeout", 30),
            next_action |-> "initiate_transfer"]
      [] h = "handle_repeat" ->
           [success |-> TRUE, action |-> "repeat_prompt", prompt_audio |-> audio,
            max_repeats |-> get(nd, "max_repeats", 3),
            next_action |-> "repeat_or_fallback"]
      [] h = "handle_end" ->
           [success |-> TRUE, action |-> "end_call", prompt_audio |-> audio,
            reason |-> get(nd, "reason", "normal"),
            next_action |-> "terminate_call"]
      [] h = "handle_ai_assistant" ->
           [success |-> TRUE, action |-> "connect_ai_assistant",
            stream_url |-> get(nd, "stream_url", None), prompt_audio |-> audio,
            max_duration |-> get(nd, "max_duration", 300),
            next_action |-> "stream_to_ai"]

\* The error dict of lines 560-564, 859-863 and 866-870.
ErrorResult(err) == [success |-> FALSE, error |-> err, action |-> "error"]

\* handle_conditional (lines 647-665): the dict it returns, or the exception
\* of evaluate_condition.
handle_conditional(nd, ctx) ==
    LET variable     == get(nd, "variable", "caller_input")
        operator     == get(nd, "operator", "equals")
        value        == get(nd, "value", PyStr(<<>>))
        actual_value == get(ctx, variable, PyNone)
        r            == evaluate_condition(actual_value, operator, value)
    IN  IF r.raised THEN ErrorResult("exception")
        ELSE [success |-> TRUE, action |-> "evaluate_condition",
              result |-> r.value, next_action |-> "route_based_on_result"]

\* handle_node (lines 551-564) and the handler it calls, up to the handler's
\* return or its suspension on the Synthesizer. built: AIPipeline() can be
\* constructed; when it raises, or a condition does, the handler of line 864
\* catches.
handle_node(nt, nd, ctx, built) ==
    LET h  == handler_method(nt)
        w  == [WfIdle EXCEPT !.node_type = nt, !.node_data = nd, !.context = ctx,
                             !.given = ctx, !.handler = h]
        sp == handler_speech(h, nd)
    IN  IF h = "none"
        THEN [w EXCEPT !.pc = "done", !.result = ErrorResult("Unknown node type")]
        ELSE IF h = "handle_conditional"
        THEN [w EXCEPT !.pc = "done", !.result = handle_conditional(nd, ctx)]
        ELSE IF ~sp.speak
        THEN [w EXCEPT !.pc = "done", !.result = handler_result(h, nd, None)]
        ELSE IF ~built
        THEN [w EXCEPT !.pc = "done", !.result = ErrorResult("exception")]
        ELSE [w EXCEPT !.pc = "tts", !.synth = 1, !.said = sp.text]

\* Mutant: no handler for the ValueError of NodeType(node_type).
execute_workflow_node_no_value_error(nt, nd, ctx, built) ==
    IF nt \in NodeTypes THEN handle_node(nt, nd, ctx, built)
    ELSE [WfIdle EXCEPT !.node_type = nt, !.node_data = nd, !.context = ctx,
                        !.given = ctx, !.pc = "raised"]

\* execute_workflow_node (lines 852-870) up to its return or its suspension
\* on the Synthesizer: NodeType(node_type) raises ValueError for a string
\* that is no value of the enum.
execute_workflow_node(nt, nd, ctx, built) ==
    IF nt \in NodeTypes THEN handle_node(nt, nd, ctx, built)
    ELSE [WfIdle EXCEPT !.node_type = nt, !.node_data = nd, !.context = ctx,
                        !.given = ctx, !.pc = "done",
                        !.result = ErrorResult("Unknown node type")]

\* Mutant: the handler binds the outcome of the Synthesizer in the context.
synth_done_binds_outcome(w, out) ==
    [w EXCEPT !.pc = "done",
              !.context = [last_prompt |-> PyNone] @@ w.context,
              !.result = IF out = "raise" THEN ErrorResult("exception")
                         ELSE handler_result(w.handler, w.node_data,
                                             IF out = "ok" THEN "audio" ELSE None)]

\* The Synthesizer returned or raised: the rest of the handler, or the
\* handler of line 864. A failure result has no audio_data.
synth_done(w, out) ==
    IF out = "raise"
    THEN [w EXCEPT !.pc = "done", !.result = ErrorResult("exception")]
    ELSE [w EXCEPT !.pc = "done",
                   !.result = handler_result(w.handler, w.node_data,
                                             IF out = "ok" THEN "audio" ELSE None)]

\* ---- validate_node_data (lines 802-850) ---------------------------------
\* The keys of NODE_CONFIGS (lines 322-543).
NODE_CONFIGS ==
    {"greeting", "audio", "input", "conditional", "voicemail", "transfer",
     "repeat", "end", "ai_assistant"}

\* The keys of data_models (lines 821-831).
data_models ==
    {"greeting", "audio", "input", "conditional", "voicemail", "transfer",
     "repeat", "end", "ai_assistant"}

\* The NodeData class written for a node type (lines 88-320): the fields
\* declared with a default, the Optional fields, whose default is None, and
\* the fields declared with `...` or without a default. menu and
\* speech_input nodes have no class.
NodeDataClass(nt) ==
    CASE nt = "greeting" ->  \* GreetingNodeData
          [defaults |-> [text |-> "Welcome to our service.", voice |-> "alice",
                         language |-> "en-US", menu_options |-> <<>>,
                         timeout |-> 10, max_retries |-> 3],
           optional |-> {"audio_url"},
           required |-> {}]
      [] nt = "audio" ->  \* AudioNodeData
          [defaults |-> [mode |-> "tts", messageText |-> "Welcome to our service.",
                         voice |-> "en-GB-SoniaNeural", language |-> "en-GB",
                         afterPlayback |-> "next", timeoutSeconds |-> 10,
                         maxRetries |-> 3],
           optional |-> {"audioUrl", "audioAssetId", "fallbackAudioNodeId",
                         "promptKey", "text", "timeout", "max_retries", "audio_url",
                         "audio_asset_id"},
           required |-> {}]
      [] nt = "input" ->  \* UserInputNodeData
          [defaults |-> [digit |-> "1", label |-> "", action |-> "transfer",
                         maxAttempts |-> 3, timeoutSeconds |-> 10],
           optional |-> {"destination", "promptAudioNodeId", "invalidAudioNodeId",
                         "timeoutAudioNodeId", "timeout", "max_attempts",
                         "prompt_audio_node_id", "invalid_audio_node_id",
                         "timeout_audio_node_id"},
           required |-> {}]
      [] nt = "conditional" ->  \* ConditionalNodeData
          [defaults |-> [condition |-> "business_hours", operator |-> "equals"],
           optional |-> {"variable", "value", "truePath", "falsePath", "true_path",
                         "false_path"},
           required |-> {}]
      [] nt = "voicemail" ->  \* VoicemailNodeData
          [defaults |-> [text |-> "Please leave your message after the beep.",
                         maxLength |-> 60, transcribe |-> TRUE, playBeep |-> TRUE,
                         mailbox |-> "general"],
           optional |-> {"greetingAudioNodeId", "storageRoute", "max_length",
                         "greeting_audio_node_id"},
           required |-> {}]
      [] nt = "transfer" ->  \* TransferNodeData
          [defaults |-> [timeout |-> 30],
           optional |-> {"label", "announceText", "announce_text"},
           required |-> {"destination"}]
      [] nt = "repeat" ->  \* RepeatNodeData
          [defaults |-> [maxRepeats |-> 3, replayLastPrompt |-> TRUE,
                         resetOnRepeat |-> FALSE],
           optional |-> {"repeatMessage", "fallbackNodeId", "fallbackMessage"},
           required |-> {}]
      [] nt = "end" ->  \* EndNodeData
          [defaults |-> [terminationType |-> "hangup", callbackDelay |-> 15,
                         maxCallbackAttempts |-> 3, sendSurvey |-> FALSE,
                         logCall |-> TRUE, sendReceipt |-> FALSE,
                         contactMethod |-> "sms"],
           optional |-> {"text", "transferNumber", "voicemailBox", "reason",
                         "transfer_number", "voicemail_box", "callback_delay",
                         "max_callback_attempts", "send_survey", "log_data",
                         "send_receipt", "contact_method"},
           required |-> {}]
      [] nt = "ai_assistant" ->  \* AIAssistantNodeData
          [defaults |-> [maxDuration |-> 300, language |-> "en-US",
                         voiceProfile |-> "professional",
                         transferOnHumanRequest |-> TRUE],
           optional |-> {"welcomeMessage", "contextData", "humanTransferDestination"},
           required |-> {"streamUrl"}]
      [] nt = "queue" ->  \* QueueNodeData
          [defaults |-> [queue_name |-> "General", max_wait_time |-> 300,
                         position_announcement |-> TRUE, music_on_hold |-> "default"],
           optional |-> {"wait_message", "custom_music_url"},
           required |-> {}]
      [] nt = "sms" ->  \* SMSNodeData
          [defaults |-> [send_immediately |-> TRUE],
           optional |-> {"to", "from_number"},
           required |-> {"message"}]
      [] nt = "set_variable" ->  \* SetVariableNodeData
          [defaults |-> [scope |-> "call", overwrite |-> TRUE],
           optional |-> {},
           required |-> {"variable", "value"}]
      [] nt = "api_call" ->  \* APICallNodeData
          [defaults |-> [method |-> "GET", timeout |-> 10, retry_count |-> 0,
                         success_codes |-> <<200, 201, 202>>],
           optional |-> {"headers", "body", "output_variable"},
           required |-> {"url"}]
      [] OTHER -> [defaults |-> EmptyDict, optional |-> {}, required |-> {}]

\* The line of the ValidationError for a required field that is missing.
FieldRequired ==
    [destination |-> "destination: field required",
     streamUrl |-> "streamUrl: field required",
     message |-> "message: field required",
     variable |-> "variable: field required",
     value |-> "value: field required",
     url |-> "url: field required"]

\* model_class(**node_data) raises: the constraints the data violates. The
\* fields given here are those of transfer nodes.
Violations(nt, nd) ==
    IF nt = "transfer" THEN TransferNodeData(nd)
    ELSE {FieldRequired[k] : k \in NodeDataClass(nt).required \ DOMAIN nd}

\* The second name of a field a model_post_init fills, and the field it is
\* filled from when it is None. on_truthy: only from a value that is true.
Backfills(nt) ==
    CASE nt = "audio" ->
           {[to |-> "text", from |-> "messageText", on_truthy |-> TRUE],
            [to |-> "timeout", from |-> "timeoutSeconds", on_truthy |-> FALSE],
            [to |-> "max_retries", from |-> "maxRetries", on_truthy |-> FALSE],
            [to |-> "audio_url", from |-> "audioUrl", on_truthy |-> TRUE],
            [to |-> "audio_asset_id", from |-> "audioAssetId", on_truthy |-> TRUE]}
      [] nt = "input" ->
           {[to |-> "timeout", from |-> "timeoutSeconds", on_truthy |-> FALSE],
            [to |-> "max_attempts", from |-> "maxAttempts", on_truthy |-> FALSE],
            [to |-> "prompt_audio_node_id", from |-> "promptAudioNodeId",
             on_truthy |-> TRUE],
            [to |-> "invalid_audio_node_id", from |-> "invalidAudioNodeId",
             on_truthy |-> TRUE],
            [to |-> "timeout_audio_node_id", from |-> "timeoutAudioNodeId",
             on_truthy |-> TRUE]}
      [] nt = "conditional" ->
           {[to |-> "true_path", from |-> "truePath", on_truthy |-> TRUE],
            [to |-> "false_path", from |-> "falsePath", on_truthy |-> TRUE]}
      [] nt = "voicemail" ->
           {[to |-> "max_length", from |-> "maxLength", on_truthy |-> FALSE],
            [to |-> "greeting_audio_node_id", from |-> "greetingAudioNodeId",
             on_truthy |-> TRUE]}
      [] nt = "transfer" ->
           {[to |-> "announce_text", from |-> "announceText", on_truthy |-> TRUE]}
      [] nt = "end" ->
           {[to |-> "reason", from |-> "terminationType", on_truthy |-> TRUE],
            [to |-> "transfer_number", from |-> "transferNumber", on_truthy |-> TRUE],
            [to |-> "voicemail_box", from |-> "voicemailBox", on_truthy |-> TRUE],
            [to |-> "callback_delay", from |-> "callbackDelay", on_truthy |-> FALSE],
            [to |-> "max_callback_attempts", from |-> "maxCallbackAttempts",
             on_truthy |-> FALSE],
            [to |-> "send_survey", from |-> "sendSurvey", on_truthy |-> FALSE],
            [to |-> "log_data", from |-> "logCall", on_truthy |-> FALSE],
            [to |-> "send_receipt", from |-> "sendReceipt", on_truthy |-> FALSE],
            [to |-> "contact_method", from |-> "contactMethod", on_truthy |-> FALSE]}
      [] OTHER -> {}

\* The fields of the instance that hold a value, before model_post_init.
Fields(class, nd) == nd @@ class.defaults

\* model_post_init of the class of nt: the fields it fills. A field that was
\* not given and is Optional holds None.
model_post_init(nt, class, nd) ==
    LET d      == Fields(class, nd)
        fills  == {b \in Backfills(nt) :
                     /\ b.to \notin DOMAIN d
                     /\ b.from \in DOMAIN d
                     /\ b.on_truthy => d[b.from] # ""}
        filled == {b.to : b \in fills}
    IN  [k \in filled |-> d[(CHOOSE b \in fills : b.to = k).from]]

\* validated_data.dict(): every field of the class and every extra field.
dict(nt, class, nd) ==
    model_post_init(nt, class, nd) @@ Fields(class, nd)
      @@ [k \in class.optional |-> None]

\* validate_node_data (lines 810-850). errors holds the lines of the one
\* message the code returns.
validate_node_data(nt, nd) ==
    IF nt \notin NodeTypes \/ nt \notin NODE_CONFIGS
    THEN [valid |-> FALSE, errors |-> {"Unknown node type"}]
    ELSE IF nt \notin data_models THEN [valid |-> TRUE, data |-> nd]
    ELSE IF Violations(nt, nd) # {}
    THEN [valid |-> FALSE, errors |-> Violations(nt, nd)]
    ELSE [valid |-> TRUE,
          data |-> dict(nt, NodeDataClass(nt), nd)]

\* A call of validate_node_data, without data and, for a transfer node, with
\* the data of such nodes; the engine keeps nothing from it.
ValidateNodeData(nt) ==
    /\ \E nd \in (IF nt = "transfer" THEN NodeDatas ELSE {}) \cup {EmptyDict} :
         validation' = [pc |-> "done", node_type |-> nt, node_data |-> nd,
                        result |-> validate_node_data(nt, nd)]
    /\ UNCHANGED <<cmvars, aivars, wf>>

\* ---- actions of the node engine ----------------------------------------
\* A call of execute_workflow_node with a node_type string, node data and
\* a context. The engine keeps no state from one call to the next: one call
\* stands for every call.
Execute(nt, datas, contexts) ==
    /\ wf.pc = "idle"
    /\ \E nd \in datas, ctx \in contexts, built \in BOOLEAN :
         wf' = execute_workflow_node(nt, nd, ctx, built)
    /\ UNCHANGED <<cmvars, aivars, validation>>

ExecuteBegin == \E nt \in NodeTypeStrings : Execute(nt, NodeDataOf(nt), Contexts)

SynthDone(out) ==
    /\ wf.pc = "tts"
    /\ wf' = synth_done(wf, out)
    /\ UNCHANGED <<cmvars, aivars, validation>>

\* ---- specifications ----------------------------------------------------
\* The environment of each specification calls a part of the manager's
\* interface; all of them connect and disconnect freely.

\* Sessions and their heartbeat tasks.
Next ==
    \/ \E c \in CallIds : ConnectBegin(c, MaxHandles)
    \/ \E h \in Handles : ConnectAccepted(h)
    \/ \E h \in Handles : ConnectRefused(h)
    \/ \E c \in CallIds : Disconnect(c)
    \/ \E t \in Handles : HbStart(t)
    \/ \E t \in Handles : HbWake(t, TRUE)
    \/ \E t \in Handles, ok \in BOOLEAN : HbSendDone(t, ok)

Spec == Init /\ [][Next]_vars

\* Sessions and the application's sends: send_message, broadcast, close_all.
\* The heartbeat tasks are created and canceled here; the event loop does not
\* get to run them within the window this specification looks at.
NextSend ==
    \/ \E c \in CallIds : ConnectBegin(c, MaxHandles)
    \/ \E h \in Handles : ConnectAccepted(h)
    \/ \E h \in Handles : ConnectRefused(h)
    \/ \E c \in CallIds : Disconnect(c)
    \/ \E c \in CallIds : SendBegin(c, TRUE)
    \/ \E ok \in BOOLEAN : SendDone(ok)
    \/ \E x \in SUBSET CallIds : BroadcastBegin(x, TRUE)
    \/ \E ok \in BOOLEAN : BroadcastSendDone(ok, TRUE)
    \/ CloseAllBegin
    \/ CloseDone

SpecSend == Init /\ [][NextSend]_vars

\* Sessions and rooms (heartbeat tasks as in SpecSend).
NextRoom ==
    \/ \E c \in CallIds : ConnectBegin(c, MaxRoomConnects)
    \/ \E h \in Handles : ConnectAccepted(h)
    \/ \E c \in CallIds : Disconnect(c)
    \/ \E c \in CallIds, r \in RoomNames : JoinRoom(c, r)
    \/ \E c \in CallIds, r \in RoomNames : LeaveRoom(c, r)
    \/ \E r \in RoomNames : SendToRoom(r, TRUE)
    \/ BroadcastQueueUpdate(TRUE)
    \/ BroadcastCallUpdate(TRUE)
    \/ \E ok \in BOOLEAN : RoomSendDone(ok, TRUE)

SpecRoom == Init /\ [][NextRoom]_vars

\* The heartbeat loop under fair scheduling: every task that can run does
\* run, every timer expires and every send_json returns or raises. The
\* counter messages_sent saturates at MaxSent here instead of stopping the
\* sends.
NextLive ==
    \/ \E c \in CallIds : ConnectBegin(c, MaxLiveConnects)
    \/ \E h \in Handles : ConnectAccepted(h)
    \/ \E c \in CallIds : Disconnect(c)
    \/ \E t \in Handles : HbStart(t)
    \/ \E t \in Handles : HbWake(t, FALSE)
    \/ \E t \in Handles, ok \in BOOLEAN : HbSendDone(t, ok)

SpecLive ==
    /\ Init /\ [][NextLive]_vars
    /\ \A t \in Handles :
         /\ WF_vars(HbStart(t))
         /\ WF_vars(HbWake(t, FALSE))
         /\ WF_vars(\E ok \in BOOLEAN : HbSendDone(t, ok))

\* The fair heartbeat loop with a session that comes back: as SpecLive, with
\* as many connects as there are WebSocket objects, so that an id can be
\* connected twice, disconnected and connected again.
NextReconnect ==
    \/ \E c \in CallIds : ConnectBegin(c, MaxHandles)
    \/ \E h \in Handles : ConnectAccepted(h)
    \/ \E c \in CallIds : Disconnect(c)
    \/ \E t \in Handles : HbStart(t)
    \/ \E t \in Handles : HbWake(t, FALSE)
    \/ \E t \in Handles, ok \in BOOLEAN : HbSendDone(t, ok)

SpecReconnect ==
    /\ Init /\ [][NextReconnect]_vars
    /\ \A t \in Handles :
         /\ WF_vars(HbStart(t))
         /\ WF_vars(HbWake(t, FALSE))
         /\ WF_vars(\E ok \in BOOLEAN : HbSendDone(t, ok))

\* The fair heartbeat loop with dead transports: send_json raises on every
\* WebSocket of the call ids in DeadIds. No caller connects or disconnects
\* such an id while a session of it is registered: what happens to the
\* session is the heartbeat's doing.
DeadIds == {"B"}

DeadSession(c) == c \in DeadIds /\ LiveHandles(ws, c) # {}

\* The outcome of the send_json a heartbeat task is suspended on.
Transport(t, ok) == tasks[t].pc = "send" /\ (ok => ws[tasks[t].to].cid \notin DeadIds)

NextDead ==
    \/ \E c \in CallIds : ~DeadSession(c) /\ ConnectBegin(c, MaxLiveConnects)
    \/ \E h \in Handles : ConnectAccepted(h)
    \/ \E c \in CallIds : ~DeadSession(c) /\ Disconnect(c)
    \/ \E t \in Handles : HbStart(t)
    \/ \E t \in Handles : HbWake(t, FALSE)
    \/ \E t \in Handles, ok \in BOOLEAN : Transport(t, ok) /\ HbSendDone(t, ok)

SpecDead ==
    /\ Init /\ [][NextDead]_vars
    /\ \A t \in Handles :
         /\ WF_vars(HbStart(t))
         /\ WF_vars(HbWake(t, FALSE))
         /\ WF_vars(\E ok \in BOOLEAN : Transport(t, ok) /\ HbSendDone(t, ok))

\* close_all with no connect running next to it: no accept() returns while
\* close_all is suspended on a close(). Disconnects and the application's
\* sends go on between its steps.
NextClose ==
    \/ \E c \in CallIds : ConnectBegin(c, MaxHandles)
    \/ \E h \in Handles : op.pc # "closing" /\ ConnectAccepted(h)
    \/ \E c \in CallIds : Disconnect(c)
    \/ \E c \in CallIds : SendBegin(c, TRUE)
    \/ \E ok \in BOOLEAN : SendDone(ok)
    \/ CloseAllBegin
    \/ CloseDone

SpecClose == Init /\ [][NextClose]_vars

\* Every operation on sessions side by side: connect, disconnect, the
\* heartbeat tasks, send_message, broadcast and close_all.
NextAll ==
    \/ \E c \in CallIds : ConnectBegin(c, MaxLiveConnects)
    \/ \E h \in Handles : ConnectAccepted(h)
    \/ \E h \in Handles : ConnectRefused(h)
    \/ \E c \in CallIds : Disconnect(c)
    \/ \E t \in Handles : HbStart(t)
    \/ \E t \in Handles : HbWake(t, TRUE)
    \/ \E t \in Handles, ok \in BOOLEAN : HbSendDone(t, ok)
    \/ \E c \in CallIds : SendBegin(c, TRUE)
    \/ \E ok \in BOOLEAN : SendDone(ok)
    \/ \E x \in {{}, {"A"}} : BroadcastBegin(x, TRUE)
    \/ \E ok \in BOOLEAN : BroadcastSendDone(ok, TRUE)
    \/ CloseAllBegin
    \/ CloseDone

SpecAll == Init /\ [][NextAll]_vars

\* The pipeline: calls of process_audio and process_text, one at a time, and
\* resets, which may come while a call is suspended on the Synthesizer.
NextPipe ==
    \/ \E c \in ConversationIds, stt \in SttOutcomes, ai \in AiOutcomes :
         ProcessAudio(c, stt, ai)
    \/ \E c \in ConversationIds, ai \in AiOutcomes : ProcessText(c, ai)
    \/ \E out \in TtsOutcomes : TtsDone(out)
    \/ \E id \in ConversationIds \cup {None} : ResetConversation(id)

SpecPipe == Init /\ [][NextPipe]_vars

\* The conversation store: exchanges and resets.
NextHist ==
    \/ \E c \in ConversationIds, ai \in AiOutcomes : GetResponse(c, ai)
    \/ \E id \in ConversationIds \cup {None} : ResetConversation(id)

SpecHist == Init /\ [][NextHist]_vars

\* Calls for one call_id that overlap: while a process_text call is suspended
\* on the Synthesizer, other calls reach their Reasoner stage, the one stage
\* of a pipeline call that runs get_response.
NextTurns ==
    \/ \E c \in ConversationIds, ai \in AiOutcomes : ProcessText(c, ai)
    \/ \E c \in ConversationIds, ai \in AiOutcomes : GetResponse(c, ai)
    \/ \E out \in TtsOutcomes : TtsDone(out)

SpecTurns == Init /\ [][NextTurns]_vars

\* The node engine: the execution of one node.
NextNode ==
    \/ ExecuteBegin
    \/ \E out \in TtsOutcomes : SynthDone(out)

SpecNode == Init /\ [][NextNode]_vars

\* The node engine next to the sessions, the rooms and the conversations:
\* nodes are executed while sessions connect and join rooms and while the
\* Reasoner answers.
NextShared ==
    \/ \E c \in CallIds : ConnectBegin(c, MaxLiveConnects)
    \/ \E h \in Handles : ConnectAccepted(h)
    \/ \E c \in CallIds, r \in RoomNames : JoinRoom(c, r)
    \/ \E c \in ConversationIds, ai \in AiOutcomes :
         Total(answered) < MaxSharedExchanges /\ GetResponse(c, ai)
    \/ \E nt \in {"greeting", "transfer", "conditional", "set_variable", "bogus"} :
         Execute(nt,
                 {EmptyDict,
                  [destination |-> GoodNumber, announce_text |-> "Please hold"]},
                 {[caller_input |-> PyStr(<<"5">>)]})
    \/ \E out \in TtsOutcomes : SynthDone(out)

SpecShared == Init /\ [][NextShared]_vars

\* The validation of node data.
NextValidate == \E nt \in NodeTypeStrings : ValidateNodeData(nt)

SpecValidate == Init /\ [][NextValidate]_vars

\* ---- properties ---------------------------------------------------------
\* A heartbeat task hands a heartbeat to a WebSocket in this step.
HbSendStarts(t) == tasks[t].pc # "send" /\ tasks'[t].pc = "send"

\* The application's call hands a message to a WebSocket in this step.
OpSendStarts ==
    /\ op'.pc = "sending"
    /\ op.pc # "sending" \/ op'.todo # op.todo \/ op'.visited # op.visited

\* A send of the application's call ends with a transport error in this step.
OpSendFails == op.pc = "sending" /\ op'.failed # op.failed

\* C1: once disconnect(call_id) has returned, no heartbeat task hands a
\* heartbeat to the WebSocket of the disconnected session, whatever the task
\* was doing at the disconnect (not started, sleeping, woken, sending).
C1_NoHeartbeatAfterDisconnect ==
    [][\A t \in Handles :
         HbSendStarts(t) => ws[tasks'[t].to].st # "disconnected"]_vars

\* A session was disconnected while its task slept; the task has run since
\* and ended without sending.
C1_Witness ==
    \E h \in Handles :
        /\ ws[h].st = "disconnected"
        /\ tasks[h].pc = "done" /\ tasks[h].cancel
        /\ \E t \in Handles \ {h} : ws[t].cid = ws[h].cid /\ tasks[t].pc = "done"

\* C2: disconnect of an id that is not registered changes nothing and does
\* not raise; a second disconnect of the same id changes nothing more.
C2_DisconnectIdempotent ==
    \A c \in CallIds :
        LET S1 == disconnect(Cur, c)
        IN  /\ c \notin DOMAIN active_connections => S1 = Cur
            /\ S1.error = "none"
            /\ disconnect(S1, c) = S1

\* An id was disconnected and is not registered, while another session, its
\* task and a room with the disconnected id in it exist.
C2_Witness ==
    \E h \in Handles :
        /\ ws[h].st = "disconnected"
        /\ ws[h].cid \notin DOMAIN active_connections
        /\ DOMAIN heartbeat_tasks # {}
        /\ \E r \in DOMAIN rooms : ws[h].cid \in rooms[r]

\* C3: when send_json raises inside send_message, the call returns normally
\* and the id is disconnected: not registered, no metadata, no heartbeat
\* task entry, and the task that was registered for it is canceled.
C3_SendFailureDisconnects ==
    [][OpSendFails =>
         /\ op'.error = "none"
         /\ op.cid \notin DOMAIN active_connections'
         /\ op.cid \notin DOMAIN connection_info'
         /\ op.cid \notin DOMAIN heartbeat_tasks'
         /\ op.cid \in DOMAIN heartbeat_tasks =>
              LET t == heartbeat_tasks[op.cid]
              IN  tasks'[t].cancel \/ tasks'[t].pc = "done"]_vars

\* A send_message of the application failed and evicted a live session.
C3_Witness ==
    /\ op.kind = "send" /\ op.pc = "done" /\ op.failed # {}
    /\ \E h \in Handles :
         /\ ws[h].st = "disconnected" /\ ws[h].cid \in op.failed
         /\ tasks[h].cancel
         /\ ws[h].cid \notin DOMAIN active_connections

\* The state part of C4: a broadcast never sends to an excluded id; when it
\* has returned, it has not raised and has sent to every non-excluded session
\* that was registered from its start to its end.
C4_BroadcastReturns ==
    op.kind = "broadcast" =>
        /\ op.attempted \cap op.exclude = {}
        /\ op.attempted \subseteq DOMAIN op.snap
        /\ op.pc = "done" =>
             /\ op.error = "none"
             /\ \A c \in (DOMAIN op.snap) \ op.exclude :
                  (c \in DOMAIN active_connections
                   /\ active_connections[c] = op.snap[c]) => c \in op.attempted

\* The step part of C4: a send of a broadcast that fails unregisters the id
\* it was sent to and touches no other session.
C4_FailureIsolated ==
    (op.kind = "broadcast" /\ OpSendFails) =>
        /\ DOMAIN active_connections' = (DOMAIN active_connections) \ {op.cid}
        /\ \A c \in DOMAIN active_connections' :
             /\ active_connections'[c] = active_connections[c]
             /\ connection_info'[c] = connection_info[c]
             /\ heartbeat_tasks'[c] = heartbeat_tasks[c]
             /\ tasks'[heartbeat_tasks[c]] = tasks[heartbeat_tasks[c]]

\* C4: broadcast sends to every non-excluded session registered throughout
\* it and to no excluded one, does not raise, and a failed send unregisters
\* only the id it was sent to, the loop going on to the remaining ids.
C4_Broadcast == [](C4_BroadcastReturns) /\ [][C4_FailureIsolated]_vars

\* A broadcast excluding nobody returned after its send to one session failed
\* and its send to another was made.
C4_Witness ==
    /\ op.kind = "broadcast" /\ op.pc = "done" /\ op.exclude = {}
    /\ op.failed # {} /\ op.attempted = CallIds
    /\ \E c \in CallIds \ op.failed : c \in DOMAIN active_connections

\* C5: send_to_room hands the message only to ids that are members of the
\* room at that moment; a queue_update goes only to members of queue_monitor
\* and a call_update only to members of call_monitor.
C5_RoomMembersOnly ==
    [][(op'.kind = "room" /\ OpSendStarts) =>
         /\ op'.room \in DOMAIN rooms /\ op'.cid \in rooms[op'.room]
         /\ op'.to = active_connections[op'.cid]
         /\ op'.mtype = "queue_update" => op'.room = "queue_monitor"
         /\ op'.mtype = "call_update" => op'.room = "call_monitor"]_vars

\* A in call_monitor, B in queue_monitor only, both registered:
\* send_to_room("call_monitor", M) returned having sent to A alone.
C5_Witness ==
    /\ op.kind = "room" /\ op.pc = "done" /\ op.room = "call_monitor"
    /\ op.attempted = {"A"} /\ op.error = "none"
    /\ DOMAIN active_connections = {"A", "B"}
    /\ DOMAIN rooms = RoomNames
    /\ rooms["call_monitor"] = {"A"} /\ rooms["queue_monitor"] = {"B"}

\* C6: every registered call_id has exactly one heartbeat task that is
\* running (created, not ended, not canceled).
RunningTasks(c) ==
    {t \in Handles : ws[t].cid = c /\ tasks[t].pc \in {"start", "sleep", "send"}
                     /\ ~tasks[t].cancel}

C6_OneHeartbeatPerSession ==
    \A c \in DOMAIN active_connections : Cardinality(RunningTasks(c)) = 1

\* C7: a connect for a registered id leaves one entry for the id, bound to
\* the new WebSocket, with fresh metadata; every send started afterwards goes
\* to the WebSocket registered at that moment, never to a replaced one.
C7_ConnectReplaces ==
    [][/\ \A h \in Handles :
            (ws[h].st = "accepting" /\ ws'[h].st = "live") =>
                /\ active_connections'[ws[h].cid] = h
                /\ connection_info'[ws[h].cid] = FreshInfo
                /\ Cardinality({i \in 1..Len(key_order') :
                                  key_order'[i] = ws[h].cid}) = 1
       /\ OpSendStarts =>
            /\ op'.to = active_connections[op'.cid]
            /\ ws[op'.to].st = "live"]_vars

\* A session was replaced by a connect for its id, and a send is in flight to
\* the new WebSocket.
C7_Witness ==
    \E h1, h2 \in Handles :
        /\ ws[h1].st = "replaced" /\ ws[h2].st = "live" /\ ws[h1].cid = ws[h2].cid
        /\ op.pc = "sending" /\ op.cid = ws[h2].cid /\ op.to = h2
        /\ connection_info[op.cid].messages_sent = 0

\* C8: the connection count is the number of call_ids connected and not
\* disconnected since (by disconnect, by a failed send or by close_all).
C8_CountIsLiveIds ==
    get_connection_count = Cardinality({c \in CallIds : LiveHandles(ws, c) # {}})

\* connect(A), connect(B), disconnect(A): the count is 1.
C8_Witness ==
    /\ get_connection_count = 1
    /\ "B" \in DOMAIN active_connections
    /\ \E h \in Handles : ws[h].cid = "A" /\ ws[h].st = "disconnected"
    /\ op.pc = "idle"

\* C9: no room of the map is empty; join_room creates the room when it is
\* absent and adds the member; leave_room removes the room with its last
\* member, and changes nothing when the room or the member does not exist.
C9_RoomsNonEmpty ==
    /\ \A r \in DOMAIN rooms : rooms[r] # {}
    /\ \A c \in CallIds, r \in RoomNames :
         LET J == join_room(Cur, c, r)
             L == leave_room(Cur, c, r)
         IN  /\ r \in DOMAIN J.rooms /\ c \in J.rooms[r]
             /\ \A q \in DOMAIN J.rooms : J.rooms[q] # {}
             /\ \A q \in DOMAIN L.rooms : L.rooms[q] # {}
             /\ (r \in DOMAIN rooms /\ rooms[r] = {c}) => r \notin DOMAIN L.rooms
             /\ (r \notin DOMAIN rooms \/ c \notin rooms[r]) => L = Cur

\* The last member left queue_monitor while a send_to_room was iterating it:
\* the room is gone from the map, call_monitor is still there.
C9_Witness ==
    /\ op.kind = "room" /\ op.room = "queue_monitor" /\ op.stale
    /\ DOMAIN rooms = {"call_monitor"}

\* C10: under fair scheduling, a session that stays registered for ever is
\* handed a heartbeat by its task again and again.
C10_HeartbeatsKeepComing ==
    \A h \in Handles :
        <>[](ws[h].st = "live") => []<>(tasks[h].pc = "send" /\ tasks[h].to = h)

\* A live session whose task is sending a heartbeat after earlier ones were
\* delivered.
C10_Witness ==
    \E h \in Handles :
        /\ ws[h].st = "live" /\ tasks[h].pc = "send" /\ tasks[h].to = h
        /\ connection_info[ws[h].cid].messages_sent = MaxSent

\* C11: under fair scheduling, once a call_id is disconnected (it is not
\* registered), every heartbeat task that was started for it eventually
\* stops.
C11_HeartbeatTasksStop ==
    \A h \in Handles :
        (tasks[h].pc # "none" /\ ws[h].cid \notin DOMAIN active_connections)
            ~> (tasks[h].pc = "done")

\* ---- properties of the pipeline and of the conversation store ----------
\* The stage name reported for a stage that returned a non-success result.
FailedStage == [stt |-> "STT failed", ai |-> "AI failed", tts |-> "TTS failed"]

IsPrefix(s, t) == Len(s) <= Len(t) /\ s = SubSeq(t, 1, Len(s))

\* The entries of the exchanges a..b of a caller, in order.
RECURSIVE Exchanges(_, _)
Exchanges(a, b) ==
    IF a > b THEN <<>>
    ELSE <<Entry("user", Text(a)), Entry("assistant", Reply(a))>> \o Exchanges(a + 1, b)

\* C12: when a stage returns a non-success result, the call has returned
\* with {success: false, stage, error}, the stage naming the failed stage,
\* and that stage is the last one invoked: after a failed transcription the
\* Reasoner and the Synthesizer were invoked zero times.
C12_StageFailureReturnsAtOnce ==
    \A i \in 1..Len(pcall.outs) :
        pcall.outs[i] \in {"fail", "late"} =>
            /\ pcall.pc = "done"
            /\ i = Len(pcall.invoked)
            /\ pcall.result.success = FALSE
            /\ {"stage", "error"} \subseteq DOMAIN pcall.result
            /\ pcall.result.stage = FailedStage[pcall.invoked[i]]

\* process_audio returned "STT failed" having invoked the Transcriber alone.
C12_Witness ==
    /\ pcall.kind = "audio" /\ pcall.pc = "done"
    /\ pcall.invoked = <<"stt">> /\ pcall.outs = <<"fail">>
    /\ pcall.result.stage = "STT failed"

\* C13: process_audio invokes Transcriber, Reasoner, Synthesizer in this
\* order, each at most once and each after the stage before it succeeded;
\* process_text invokes the Reasoner, then the Synthesizer, each at most once,
\* and never the Transcriber.
C13_StagesInOrderOnce ==
    /\ pcall.kind = "audio" => IsPrefix(pcall.invoked, <<"stt", "ai", "tts">>)
    /\ pcall.kind = "text" => IsPrefix(pcall.invoked, <<"ai", "tts">>)
    /\ Len(pcall.outs) <= Len(pcall.invoked)
    /\ \A i \in 2..Len(pcall.invoked) : pcall.outs[i - 1] = "ok"

\* A process_text call returned "TTS failed" after one call of the Reasoner
\* and one of the Synthesizer.
C13_Witness ==
    /\ pcall.kind = "text" /\ pcall.pc = "done"
    /\ pcall.invoked = <<"ai", "tts">> /\ pcall.outs = <<"ok", "fail">>

\* C14: a pipeline call in which every stage succeeds appends the user entry
\* and the assistant entry to the history of its call_id (cut to the last 20
\* entries); a call that returns a stage failure leaves it unchanged.
C14_HistoryExtendedOnSuccessOnly ==
    pcall.pc = "done" =>
        IF pcall.result.success
        THEN pcall.h1 = LastN(pcall.h0 \o <<Entry("user", pcall.text),
                                            Entry("assistant", pcall.reply)>>, 20)
        ELSE pcall.result.stage \in {"STT failed", "AI failed", "TTS failed"}
                 => pcall.h1 = pcall.h0

\* C15: a stored history has at most 20 entries; after 10 or more exchanges
\* of a call_id with no reset call between them it is the 10 most recent
\* exchanges, in their order (20 entries).
C15_HistoryBounded ==
    \A c \in ConversationIds :
        /\ Len(HistoryOf(conversation_history, c)) <= 20
        /\ run[c] >= 10 =>
             /\ c \in DOMAIN conversation_history
             /\ conversation_history[c] = Exchanges(answered[c] - 9, answered[c])

\* 11 exchanges of A in a row: 20 entries, the first exchange is gone.
C15_Witness ==
    /\ run["A"] = 11 /\ answered["A"] = 11
    /\ Len(conversation_history["A"]) = 20
    /\ conversation_history["A"][1] = Entry("user", Text(2))
    /\ conversation_history["A"][20] = Entry("assistant", Reply(11))

\* C16: reset_conversation(id) removes the history of id and no other, for
\* every id; without an id it removes all histories; a history that has got
\* an exchange since the last reset call is still stored.
C16_ResetRemovesExactlyThatCall ==
    /\ \A id \in ConversationIds :
         reset_conversation(conversation_history, id) = DictDel(conversation_history, id)
    /\ reset_conversation(conversation_history, None) = EmptyDict
    /\ \A c \in ConversationIds : run[c] > 0 => c \in DOMAIN conversation_history

\* C17: process_audio and process_text do not raise, whatever the
\* collaborators do; they return a result with a success field, which on
\* failure also has stage and error.
C17_PipelineNeverRaises ==
    /\ pcall.pc # "raised"
    /\ pcall.pc = "done" =>
         /\ "success" \in DOMAIN pcall.result
         /\ pcall.result.success \in BOOLEAN
         /\ ~pcall.result.success =>
              /\ {"stage", "error"} \subseteq DOMAIN pcall.result
              /\ pcall.result.stage \in {"STT failed", "AI failed", "TTS failed",
                                         "Pipeline error", "Processing error"}

\* The Synthesizer raised inside process_audio: the call returned the result
\* of the outermost handler.
C17_Witness ==
    /\ pcall.kind = "audio" /\ pcall.pc = "done"
    /\ pcall.outs = <<"ok", "ok", "raise">>
    /\ pcall.result = _error_response(pcall.cid, "Pipeline error", "exception")

\* ---- properties of the node engine --------------------------------------
\* The announcement text given with a node, under either of its names.
AnnouncementGiven(nd) ==
    Truthy(get(nd, "announce_text", None)) \/ Truthy(get(nd, "announceText", None))

\* C18: for a node_type string that is no node type, execute_workflow_node
\* returns {success: false, action: "error"}; it does not raise, invokes no
\* handler and does not call the Synthesizer.
C18_UnknownTypeIsError ==
    (wf.pc # "idle" /\ wf.node_type \notin NodeTypes) =>
        /\ wf.pc = "done"
        /\ wf.result.success = FALSE /\ wf.result.action = "error"
        /\ wf.handler = "none" /\ wf.synth = 0

\* execute_workflow_node("bogus", ..) has returned.
C18_Witness ==
    /\ wf.pc = "done" /\ wf.node_type = "bogus"
    /\ wf.result = ErrorResult("Unknown node type")

\* C19: when the node data violates a constraint of the schema of its type,
\* the type's handler is not invoked and the engine returns a validation
\* failure that carries the violated constraints.
C19_ValidatedBeforeDispatch ==
    (wf.pc # "idle" /\ wf.node_type = "transfer"
       /\ TransferNodeData(wf.node_data) # {}) =>
        /\ wf.handler = "none" /\ wf.synth = 0
        /\ wf.pc = "done"
        /\ "valid" \in DOMAIN wf.result /\ wf.result.valid = FALSE
        /\ wf.result.errors = TransferNodeData(wf.node_data)

\* C20: a transfer node with a valid destination d, a valid timeout t and no
\* announcement text returns {success: true, action: "transfer_call",
\* destination: d, timeout: t, next_action: "initiate_transfer"} without a
\* call of the Synthesizer; the Synthesizer is called, once, only for a node
\* with an announcement text.
C20_TransferResult ==
    (wf.pc # "idle" /\ wf.node_type = "transfer") =>
        /\ wf.synth <= 1
        /\ wf.synth = 1 => AnnouncementGiven(wf.node_data)
        /\ (/\ TransferNodeData(wf.node_data) = {}
            /\ "timeout" \in DOMAIN wf.node_data
            /\ ~AnnouncementGiven(wf.node_data)) =>
               /\ wf.pc = "done" /\ wf.synth = 0
               /\ wf.result.success = TRUE
               /\ wf.result.action = "transfer_call"
               /\ wf.result.destination = wf.node_data["destination"]
               /\ wf.result.timeout = wf.node_data["timeout"]
               /\ wf.result.next_action = "initiate_transfer"

\* The node {"destination": "+14155550123", "timeout": 45} was executed.
C20_Witness ==
    /\ wf.pc = "done" /\ wf.node_type = "transfer"
    /\ wf.node_data = [destination |-> GoodNumber, timeout |-> 45]
    /\ wf.synth = 0
    /\ wf.result = [success |-> TRUE, action |-> "transfer_call",
                    destination |-> GoodNumber, prompt_audio |-> None,
                    timeout |-> 45, next_action |-> "initiate_transfer"]

\* C21: every call of execute_workflow_node, whatever the node type, the
\* data, the context and the Synthesizer do, returns a result that has the
\* keys success, action and next_action, and raises nothing.
C21_ResultHasShape ==
    /\ wf.pc # "raised"
    /\ wf.pc = "done" =>
          {"success", "action", "next_action"} \subseteq DOMAIN wf.result

\* C22: every node type has a handler: a call with the value of a node type
\* is dispatched to the handler of that type, and the "Unknown node type"
\* error is returned only for a string that is no node type.
C22_EveryTypeHasHandler ==
    (wf.pc # "idle" /\ wf.node_type \in NodeTypes) =>
        /\ wf.handler # "none"
        /\ wf.pc = "done" => wf.result # ErrorResult("Unknown node type")

\* C23: for every node type T, validate_node_data(T, {}) returns valid: true
\* with the default of every field of T that has one when T has no required
\* field, and valid: false with errors naming exactly the required fields of
\* T otherwise.
C23_EmptyDataValidation ==
    (/\ validation.pc = "done" /\ validation.node_type \in NodeTypes
     /\ validation.node_data = EmptyDict) =>
        LET class == NodeDataClass(validation.node_type)
            r     == validation.result
        IN  IF class.required = {}
            THEN /\ r.valid
                 /\ \A k \in DOMAIN class.defaults :
                       k \in DOMAIN r.data /\ r.data[k] = class.defaults[k]
            ELSE /\ ~r.valid
                 /\ r.errors = {FieldRequired[k] : k \in class.required}

\* The operands and the operator of the condition of an executed
\* conditional node.
ActualValue(w) ==
    get(w.context, get(w.node_data, "variable", "caller_input"), PyNone)

Operator(w) == get(w.node_data, "operator", "equals")

ExpectedValue(w) == get(w.node_data, "value", PyStr(<<>>))

\* Evaluating the condition meets an exception: an operand of greater_than
\* or less_than that is no number, or a regex pattern that does not compile.
MeetsException(w) ==
    \/ /\ Operator(w) \in {"greater_than", "less_than"}
       /\ ~(Parses(ActualValue(w)) /\ Parses(ExpectedValue(w)))
    \/ Operator(w) = "regex" /\ BadPattern(str(ExpectedValue(w)))

\* C24: an exception raised while a condition is evaluated becomes the
\* result false: for every actual value, operator and expected value
\* evaluate_condition returns a boolean, and the conditional node returns
\* success: true, with result false when there was an exception.
C24_ConditionNeverRaises ==
    (wf.pc # "idle" /\ wf.node_type = "conditional") =>
        /\ ~evaluate_condition(ActualValue(wf), Operator(wf),
                               ExpectedValue(wf)).raised
        /\ wf.pc = "done"
        /\ wf.result.success = TRUE
        /\ wf.result.action = "evaluate_condition"
        /\ wf.result.result \in BOOLEAN
        /\ MeetsException(wf) => wf.result.result = FALSE

\* The values that are numbers or spell one, and the number of each.
Numbers ==
    {PyInt(<<"7">>), PyStr(<<"5">>), PyStr(<<"9">>), PyStr(<<"1", "0">>),
     PyStr(<<"-", "1">>)}

NumberOf(x) ==
    CASE x = PyInt(<<"7">>) -> 7
      [] x = PyStr(<<"5">>) -> 5
      [] x = PyStr(<<"9">>) -> 9
      [] x = PyStr(<<"1", "0">>) -> 10
      [] x = PyStr(<<"-", "1">>) -> 0 - 1

\* The seven operators of OperatorType.
DefinedOperators ==
    {"equals", "not_equals", "contains", "greater_than", "less_than",
     "exists", "regex"}

\* C25: greater_than and less_than yield false, and no error, when an
\* operand is no number (a string such as "abc", an unbound variable), and
\* the comparison of the two numbers otherwise; an operator that is none of
\* the seven yields false.
C25_NumericComparison ==
    (wf.pc # "idle" /\ wf.node_type = "conditional") =>
        LET a  == ActualValue(wf)
            e  == ExpectedValue(wf)
            o  == Operator(wf)
        IN  /\ o \in {"greater_than", "less_than"} =>
                  /\ wf.pc = "done" /\ wf.result.success = TRUE
                  /\ wf.result.result =
                        (/\ a \in Numbers /\ e \in Numbers
                         /\ o = "greater_than" => NumberOf(a) > NumberOf(e)
                         /\ o = "less_than" => NumberOf(a) < NumberOf(e))
            /\ o \notin DefinedOperators =>
                  /\ wf.pc = "done" /\ wf.result.success = TRUE
                  /\ wf.result.result = FALSE

\* {"operator": "greater_than", "value": "5"} was evaluated with
\* caller_input bound to "abc".
C25_Witness ==
    /\ wf.pc = "done" /\ wf.node_type = "conditional"
    /\ wf.node_data = [operator |-> "greater_than", value |-> PyStr(<<"5">>)]
    /\ wf.context = [caller_input |-> PyStr(<<"a", "b", "c">>)]
    /\ wf.result = [success |-> TRUE, action |-> "evaluate_condition",
                    result |-> FALSE, next_action |-> "route_based_on_result"]

\* C26: exists is true exactly when the variable is bound in the context to
\* a value that is not empty, whatever the expected value is; for a variable
\* that is absent from the context it is false.
C26_ExistsIffBoundAndNonEmpty ==
    (wf.pc # "idle" /\ wf.node_type = "conditional"
       /\ Operator(wf) = "exists") =>
        LET variable == get(wf.node_data, "variable", "caller_input")
        IN  /\ wf.pc = "done" /\ wf.result.success = TRUE
            /\ wf.result.result =
                  (/\ variable \in DOMAIN wf.context
                   /\ wf.context[variable] \notin {PyNone, PyStr(<<>>)})

\* exists was evaluated for a variable bound to "5", with the expected
\* value "5".
C26_Witness ==
    /\ wf.pc = "done" /\ wf.node_type = "conditional"
    /\ wf.node_data = [operator |-> "exists", value |-> PyStr(<<"5">>)]
    /\ wf.context = [caller_input |-> PyStr(<<"5">>)]
    /\ wf.result.result = TRUE

\* C27: the mode of an audio node alone selects the path: in upload mode the
\* Synthesizer is not called, whatever other fields the node has; in tts
\* mode a call that succeeds has called it once, on the message text.
C27_ModeAloneSelectsPath ==
    (wf.pc # "idle" /\ wf.node_type = "audio") =>
        LET mode == get(wf.node_data, "mode", "tts")
            text == get(wf.node_data, "messageText", None)
        IN  /\ mode = "upload" => wf.synth = 0
            /\ (mode = "tts" /\ wf.pc = "done" /\ wf.result.success) =>
                  /\ wf.synth = 1
                  /\ Truthy(text) => wf.said = text

\* The caller-facing names of fields and their engine-facing names.
SnakeName ==
    [announceText |-> "announce_text", maxLength |-> "max_length",
     audioUrl |-> "audio_url", messageText |-> "text"]

\* The fields given under their caller-facing name only.
CamelOnly(nd) ==
    {k \in DOMAIN nd \cap DOMAIN SnakeName : SnakeName[k] \notin DOMAIN nd}

\* The same node with those fields under their engine-facing names.
ToSnake(nd) ==
    [k \in (DOMAIN nd \ CamelOnly(nd)) \cup {SnakeName[c] : c \in CamelOnly(nd)} |->
       IF k \in DOMAIN nd \ CamelOnly(nd) THEN nd[k]
       ELSE nd[CHOOSE c \in CamelOnly(nd) : SnakeName[c] = k]]

\* What a call does and returns when the Synthesizer, if called, does out.
Outcome(nt, nd, ctx, out) ==
    LET w == execute_workflow_node(nt, nd, ctx, TRUE)
        e == IF w.pc = "tts" THEN synth_done(w, out) ELSE w
    IN  <<e.pc, e.synth, e.said, e.result>>

\* C29: a node given a value under the caller-facing name of a field
\* (announceText, maxLength) is executed exactly as the node given that
\* value under the engine-facing name (announce_text, max_length): the same
\* calls of the Synthesizer and the same result.
C29_NamingEquivalent ==
    (wf.pc # "idle" /\ CamelOnly(wf.node_data) # {}) =>
        \A out \in TtsOutcomes :
            Outcome(wf.node_type, wf.node_data, wf.context, out)
              = Outcome(wf.node_type, ToSnake(wf.node_data), wf.context, out)

\* C28: a step of execute_workflow_node leaves the session registry, the
\* room map and every conversation history as they are, and the context as
\* it was given.
C28_NodeChangesNoSharedState ==
    [][wf' # wf =>
         /\ UNCHANGED <<active_connections, connection_info, heartbeat_tasks,
                        rooms, conversation_history>>
         /\ wf'.context = wf'.given]_vars

\* A node that speaks was executed while a session is registered, a room
\* has a member and a conversation has a history.
C28_Witness ==
    /\ wf.pc = "done" /\ wf.synth = 1 /\ wf.result.success = TRUE
    /\ wf.context # EmptyDict
    /\ active_connections # EmptyDict
    /\ rooms # EmptyDict
    /\ conversation_history # EmptyDict

\* C30: under fair scheduling a registered session whose transport fails on
\* every send is eventually unregistered, without a caller acting on it,
\* and its heartbeat task stops.
C30_DeadSessionEvicted ==
    \A h \in Handles :
        (ws[h].st = "live" /\ ws[h].cid \in DeadIds)
            ~> (/\ ws[h].st # "live"
                /\ send_target(Cur, ws[h].cid) # h
                /\ tasks[h].pc = "done")

\* A session with a dead transport was evicted and its task has ended.
C30_Witness ==
    \E h \in Handles :
        /\ ws[h].cid \in DeadIds /\ ws[h].st = "disconnected"
        /\ ws[h].cid \notin DOMAIN active_connections
        /\ ws[h].cid \notin DOMAIN heartbeat_tasks
        /\ tasks[h].pc = "done"

\* ---- further properties of the connection manager ------------------------
\* C31: when close_all returns, and no connect ran next to it, no session is
\* registered, no metadata remains, the heartbeat-task map is empty and
\* every heartbeat task that was created has been canceled or has ended,
\* whether the close() calls returned or raised.
C31_CloseAllLeavesNothing ==
    [][(op.kind = "close_all" /\ op.pc = "closing" /\ op'.pc = "done") =>
         /\ active_connections' = EmptyDict
         /\ connection_info' = EmptyDict
         /\ heartbeat_tasks' = EmptyDict
         /\ \A t \in Handles :
              tasks'[t].pc \in {"none", "done"} \/ tasks'[t].cancel]_vars

\* C32: the messages a call sends to the Reasoner are the system prompt,
\* then the most recent stored entries of the call's own call_id, at most
\* 10 of them and in their stored order, then the current user message.
C32_RequestIsPromptHistoryMessage ==
    [][(request' # request /\ request'.messages # <<>>) =>
         LET m == request'.messages
             c == request'.cid
             h == HistoryOf(conversation_history, c)
             n == Len(m) - 2
         IN  /\ n >= 0 /\ n <= 10 /\ n <= Len(h)
             /\ Len(h) <= 10 => n = Len(h)
             /\ Len(h) > 10 => n = 10
             /\ m[1] = Entry("system", system_prompt)
             /\ m[Len(m)] = Entry("user", Text(answered[c] + 1))
             /\ \A i \in 1..n : m[1 + i] = h[Len(h) - n + i]]_vars

\* The seventh message of A was sent with the entries of its exchanges 2 to
\* 6, while another call_id has a history of its own.
C32_Witness ==
    /\ request.cid = "A" /\ Len(request.messages) = 12
    /\ request.messages[2] = Entry("user", Text(2))
    /\ request.messages[11] = Entry("assistant", Reply(6))
    /\ request.messages[12] = Entry("user", Text(7))
    /\ "" \in DOMAIN conversation_history
    /\ conversation_history[""] # <<>>

\* C33: between suspension points the session registry, the metadata map
\* and the heartbeat-task map have the same call_ids, whatever connects,
\* disconnects, sends, broadcasts, heartbeats and close_all calls ran.
C33_MapsShareKeys ==
    /\ DOMAIN connection_info = DOMAIN active_connections
    /\ DOMAIN heartbeat_tasks = DOMAIN active_connections

\* A broadcast is suspended on a send to one session after its send to
\* another failed and evicted it, while a heartbeat task is sending too.
C33_Witness ==
    /\ op.kind = "broadcast" /\ op.pc = "sending" /\ op.failed # {}
    /\ \E t \in Handles : tasks[t].pc = "send"
    /\ \E h \in Handles : ws[h].st = "disconnected"
    /\ DOMAIN active_connections = {op.cid}
    /\ DOMAIN heartbeat_tasks = {op.cid}

\* The send the application's call is suspended on returns or raises in
\* this step.
OpSendEnds == op.pc = "sending" /\ op' # op

\* C34: when a send that was handed to the WebSocket of an earlier session
\* of a call_id fails or completes after the call_id was connected again,
\* the newer session stays registered and its heartbeat task is not
\* canceled.
C34_StaleSendSparesNewSession ==
    [][(/\ OpSendEnds
        /\ op.cid \in DOMAIN active_connections
        /\ active_connections[op.cid] # op.to) =>
         /\ op.cid \in DOMAIN active_connections'
         /\ active_connections'[op.cid] = active_connections[op.cid]
         /\ heartbeat_tasks'[op.cid] = heartbeat_tasks[op.cid]
         /\ ~tasks'[heartbeat_tasks[op.cid]].cancel]_vars

\* C35: send_to_room does not raise when join_room or leave_room change
\* the room while it is suspended on a send, the leave that deletes the
\* room included: the fan-out ends normally.
C35_RoomFanOutNeverRaises == op.kind = "room" => op.error = "none"

\* C36: every member of every room is a registered session: a call_id that
\* was disconnected (by disconnect, by a failed send or by close_all) is a
\* member of no room.
C36_MembersAreRegistered ==
    \A r \in DOMAIN rooms : rooms[r] \subseteq DOMAIN active_connections

\* ---- further properties of the conversation store -----------------------
\* C37: every stored history is a sequence of whole exchanges: its length
\* is even, and each entry at an odd place (counted from 1) is a user entry
\* followed by the assistant's reply to it, also while calls for the same
\* call_id overlap and after the history was cut.
C37_HistoryIsWholeExchanges ==
    \A c \in DOMAIN conversation_history :
        LET h == conversation_history[c]
        IN  /\ Len(h) % 2 = 0
            /\ \A i \in 1..Len(h) :
                  IF i % 2 = 1
                  THEN /\ h[i].role = "user"
                       /\ h[i + 1] = Entry("assistant", Reply(h[i].content[2]))
                  ELSE h[i].role = "assistant"

\* A process_text call for A is suspended on the Synthesizer while later
\* calls for A have filled the history and its first exchange was cut.
C37_Witness ==
    /\ pcall.pc = "tts" /\ pcall.cid = "A" /\ Len(pcall.h1) = 2
    /\ Len(conversation_history["A"]) = 20
    /\ conversation_history["A"][1] = Entry("user", Text(2))

\* ---- further properties of the node engine ------------------------------
\* C38: a node that called the Synthesizer reports success only when the
\* Synthesizer returned a successful result with audio: a result with
\* success true carries the rendered prompt.
C38_SuccessOnlyWhenRendered ==
    (wf.pc = "done" /\ wf.synth > 0 /\ wf.result.success = TRUE) =>
        /\ "prompt_audio" \in DOMAIN wf.result
        /\ wf.result.prompt_audio # None

\* C39: when accept() raises, connect registers nothing: the registry, the
\* metadata, the heartbeat-task map and the tasks are as before, so a
\* session registered under the same call_id is left as it is.
C39_RefusedConnectRegistersNothing ==
    [][\A h \in Handles :
         (ws[h].st = "accepting" /\ ws'[h].st = "refused") =>
             /\ UNCHANGED <<active_connections, key_order, connection_info,
                            heartbeat_tasks, tasks>>
             /\ tasks'[h] = NoTask
             /\ \A g \in Handles \ {h} : ws'[g] = ws[g]]_vars

\* A connect for A was refused while a session of A was registered and had
\* been sent a heartbeat: the session and its count are still there.
C39_Witness ==
    \E g, h \in Handles :
        /\ ws[h].st = "refused" /\ ws[g].st = "live" /\ g < h
        /\ ws[g].cid = ws[h].cid
        /\ active_connections[ws[h].cid] = g
        /\ heartbeat_tasks[ws[h].cid] = g
        /\ connection_info[ws[h].cid].messages_sent = 1
        /\ tasks[h] = NoTask

\* C40: messages_sent of a session counts the sends to that session that
\* completed: when a send ends, the counter of the session it was handed
\* to grows by one if the send succeeded, and the counter of every other
\* session that stays registered is unchanged; a send to a call_id that is
\* not registered changes no counter.
C40_CounterCountsOwnSends ==
    [][/\ OpSendEnds =>
            \A c \in DOMAIN connection_info \cap DOMAIN connection_info' :
                active_connections'[c] = active_connections[c] =>
                    connection_info'[c].messages_sent =
                        connection_info[c].messages_sent
                        + (IF /\ c = op.cid /\ active_connections[c] = op.to
                              /\ op'.failed = op.failed
                           THEN 1 ELSE 0)
       /\ (op' # op /\ op.pc # "sending" /\ op'.kind = "send" /\ op'.pc = "done")
            => connection_info' = connection_info]_vars

====
